---- MODULE Spec2Model ----
(***************************************************************************)
(* The MCP adapter: capability classification (mcp_adapter/discover.py),   *)
(* reference resolution and the normalizers (mcp_adapter/ingest.py) and    *)
(* the session handlers (api_server.py).                                   *)
(*                                                                         *)
(* Strings are TLA+ strings; str.lower, str.upper and the substring test   *)
(* `kw in text` are computed character by character.  Confidences are in   *)
(* hundredths (0.9 is 90).  The exposure decision is one of the strings    *)
(* "true", "false", "review" (Python True, False, "review"); "1" is the    *)
(* JSON number 1 in an external answer.  A parsed JSON value is a record   *)
(* with its kind t (map, list, str) and its content v.                     *)
(*                                                                         *)
(* Specifications: Spec (one apply_rules call), SpecSession (repeated rule *)
(* runs on one list), SpecBatch (one classification run in any mode),      *)
(* SpecResolve (one reference resolved or flattened), SpecIngest (one      *)
(* document normalized, saved as a session and filtered), SpecFlatten (one *)
(* schema fragment flattened), SpecWalk (one item tree walked), SpecFetch  *)
(* and SpecFetchFair (one specification fetched from an address),          *)
(* SpecPolicies (one list classified under every policy), SpecApi          *)
(* (sequences of API calls on the sessions).                               *)
(***************************************************************************)
EXTENDS Naturals, Sequences, FiniteSets, TLC

----------------------------------------------------------------------------
(* Python string primitives                                                *)

UpperAlphabet == "ABCDEFGHIJKLMNOPQRSTUVWXYZ"
LowerAlphabet == "abcdefghijklmnopqrstuvwxyz"

CharAt(s, i) == SubSeq(s, i, i)

\* str.lower() on one character
LowerOf == [c \in {CharAt(UpperAlphabet, i) : i \in 1..26} |->
              CharAt(LowerAlphabet,
                     CHOOSE i \in 1..26 : CharAt(UpperAlphabet, i) = c)]

\* str.upper() on one character
UpperOf == [c \in {CharAt(LowerAlphabet, i) : i \in 1..26} |->
              CharAt(UpperAlphabet,
                     CHOOSE i \in 1..26 : CharAt(LowerAlphabet, i) = c)]

RECURSIVE lower(_)
lower(s) ==
    IF s = "" THEN ""
    ELSE LET c == CharAt(s, 1)
         IN  (IF c \in DOMAIN LowerOf THEN LowerOf[c] ELSE c)
                 \o lower(SubSeq(s, 2, Len(s)))

\* variant: the method is compared as written, without str.upper()
upper_Identity(s) == s

RECURSIVE upper(_)
upper(s) ==
    IF s = "" THEN ""
    ELSE LET c == CharAt(s, 1)
         IN  (IF c \in DOMAIN UpperOf THEN UpperOf[c] ELSE c)
                 \o upper(SubSeq(s, 2, Len(s)))

\* Python `kw in text` for non-empty kw: kw occurs as a contiguous substring
Contains(kw, text) ==
    \E i \in 1..(Len(text) + 1 - Len(kw)) :
        SubSeq(text, i, i + Len(kw) - 1) = kw

\* variant: a missing key reads as "GET", the default _raw_tools_to_canonical uses
Get_DefaultGET(tool, key) == IF key \in DOMAIN tool THEN tool[key] ELSE "GET"

\* dict.get(key, "")
Get(tool, key) == IF key \in DOMAIN tool THEN tool[key] ELSE ""

----------------------------------------------------------------------------
(* CLASSIFICATION_RULES                                                    *)

PolicyType == {"conservative", "moderate", "permissive"}

safe_methods == <<"GET", "HEAD", "OPTIONS">>

unsafe_methods == <<"DELETE">>

write_methods == <<"POST", "PUT", "PATCH">>

safe_keywords ==
    <<"list", "get", "read", "fetch", "describe", "show", "view",
      "search", "find", "query", "lookup", "check", "validate">>

unsafe_keywords ==
    <<"delete", "destroy", "remove", "terminate", "purge", "drop",
      "revoke", "cancel", "disable", "deactivate", "kill">>

\* variant: the billing list without its last entry
billing_keywords_NoOrder ==
    <<"billing", "payment", "invoice", "charge", "subscription",
      "credit", "cost", "price", "purchase">>

billing_keywords ==
    <<"billing", "payment", "invoice", "charge", "subscription",
      "credit", "cost", "price", "purchase", "order">>

auth_keywords ==
    <<"token", "secret", "password", "credential", "key", "auth",
      "login", "logout", "session">>

InList(x, list) == \E i \in 1..Len(list) : list[i] = x

\* `for kw in kws: if kw in text: return ...` : index of the keyword the loop
\* returns on, 0 when the loop falls through
FirstKeyword(kws, text) ==
    IF \E i \in 1..Len(kws) : Contains(kws[i], text)
    THEN CHOOSE i \in 1..Len(kws) :
             /\ Contains(kws[i], text)
             /\ \A j \in 1..(i - 1) : ~Contains(kws[j], text)
    ELSE 0

\* variant: the auth loop tests the name only
FirstAuthKeyword_NameOnly(name, path) ==
    IF \E i \in 1..Len(auth_keywords) : Contains(auth_keywords[i], name)
    THEN CHOOSE i \in 1..Len(auth_keywords) :
             /\ Contains(auth_keywords[i], name)
             /\ \A j \in 1..(i - 1) : ~Contains(auth_keywords[j], name)
    ELSE 0

\* the auth loop tests name and path, not the description
FirstAuthKeyword(name, path) ==
    IF \E i \in 1..Len(auth_keywords) :
           Contains(auth_keywords[i], name) \/ Contains(auth_keywords[i], path)
    THEN CHOOSE i \in 1..Len(auth_keywords) :
             /\ Contains(auth_keywords[i], name) \/ Contains(auth_keywords[i], path)
             /\ \A j \in 1..(i - 1) :
                    ~(Contains(auth_keywords[j], name) \/ Contains(auth_keywords[j], path))
    ELSE 0

Record(c, e, r, conf) ==
    [classification |-> c, expose |-> e, reason |-> r, confidence |-> conf]

\* f"{name} {description} {path}"
combined_text(tool) ==
    lower(Get(tool, "name")) \o " " \o lower(Get(tool, "description"))
        \o " " \o lower(Get(tool, "path"))

\* method in safe_methods
SafeMethodRecord(method, text) ==
    LET k == FirstKeyword(safe_keywords, text)
    IN  IF k # 0
        THEN Record("safe", "true",
                    "Read-only " \o method \o " operation with safe keyword: '"
                        \o safe_keywords[k] \o "'", 95)
        ELSE Record("safe", "true", "Read-only " \o method \o " operation", 80)

\* variant: the conservative branch also lets read-keyword writes through
WriteMethodRecord_ConservativeKeywords(method, text, policy) ==
    IF policy = "permissive"
    THEN Record("conditional", "true",
                "Write operation (" \o method \o ") allowed by permissive policy", 60)
    ELSE LET k == FirstKeyword(safe_keywords, text)
         IN  IF k # 0
             THEN Record("conditional", "true",
                         "Write operation with safe context: '"
                             \o safe_keywords[k] \o "'", 60)
             ELSE IF policy = "conservative"
             THEN Record("conditional", "false",
                         "Write operation (" \o method
                             \o ") blocked by conservative policy", 70)
             ELSE IF Contains("create", text) \/ Contains("update", text)
             THEN Record("conditional", "true",
                         "Standard create/update operation", 65)
             ELSE Record("conditional", "review",
                         "Write operation (" \o method \o ") needs manual review", 50)

\* variant: the moderate branch tests create/update before the read keywords
WriteMethodRecord_CreateFirst(method, text, policy) ==
    IF policy = "conservative"
    THEN Record("conditional", "false",
                "Write operation (" \o method \o ") blocked by conservative policy", 70)
    ELSE IF policy = "moderate"
    THEN IF Contains("create", text) \/ Contains("update", text)
         THEN Record("conditional", "true",
                     "Standard create/update operation", 65)
         ELSE LET k == FirstKeyword(safe_keywords, text)
              IN  IF k # 0
                  THEN Record("conditional", "true",
                              "Write operation with safe context: '"
                                  \o safe_keywords[k] \o "'", 60)
                  ELSE Record("conditional", "review",
                              "Write operation (" \o method
                                  \o ") needs manual review", 50)
    ELSE Record("conditional", "true",
                "Write operation (" \o method \o ") allowed by permissive policy", 60)

\* variant: the permissive branch sends writes to review
WriteMethodRecord_PermissiveReviews(method, text, policy) ==
    IF policy = "conservative"
    THEN Record("conditional", "false",
                "Write operation (" \o method \o ") blocked by conservative policy", 70)
    ELSE IF policy = "moderate"
    THEN LET k == FirstKeyword(safe_keywords, text)
         IN  IF k # 0
             THEN Record("conditional", "true",
                         "Write operation with safe context: '"
                             \o safe_keywords[k] \o "'", 60)
             ELSE IF Contains("create", text) \/ Contains("update", text)
             THEN Record("conditional", "true",
                         "Standard create/update operation", 65)
             ELSE Record("conditional", "review",
                         "Write operation (" \o method \o ") needs manual review", 50)
    ELSE Record("conditional", "review",
                "Write operation (" \o method \o ") needs manual review", 50)

\* method in ["POST", "PUT", "PATCH"]
WriteMethodRecord(method, text, policy) ==
    IF policy = "conservative"
    THEN Record("conditional", "false",
                "Write operation (" \o method \o ") blocked by conservative policy", 70)
    ELSE IF policy = "moderate"
    THEN LET k == FirstKeyword(safe_keywords, text)
         IN  IF k # 0
             THEN Record("conditional", "true",
                         "Write operation with safe context: '"
                             \o safe_keywords[k] \o "'", 60)
             ELSE IF Contains("create", text) \/ Contains("update", text)
             THEN Record("conditional", "true",
                         "Standard create/update operation", 65)
             ELSE Record("conditional", "review",
                         "Write operation (" \o method \o ") needs manual review", 50)
    ELSE Record("conditional", "true",
                "Write operation (" \o method \o ") allowed by permissive policy", 60)

NoRecord == Record("", "", "", 0)

\* variant: the billing loop runs before the destructive loop
KeywordRecord_BillingFirst(name, path, text) ==
    LET unsafeKw == FirstKeyword(unsafe_keywords, text)
        billKw   == FirstKeyword(billing_keywords, text)
        authKw   == FirstAuthKeyword(name, path)
    IN  IF billKw # 0
        THEN Record("unsafe", "false",
                    "Billing/payment operation: '"
                        \o billing_keywords[billKw] \o "'", 85)
        ELSE IF unsafeKw # 0
        THEN Record("unsafe", "false",
                    "Contains destructive keyword: '"
                        \o unsafe_keywords[unsafeKw] \o "'", 90)
        ELSE IF authKw # 0
        THEN Record("unsafe", "false",
                    "Authentication/security operation: '"
                        \o auth_keywords[authKw] \o "'", 80)
        ELSE NoRecord

\* the three keyword loops, in source order; NoRecord when all fall through
KeywordRecord(name, path, text) ==
    LET unsafeKw == FirstKeyword(unsafe_keywords, text)
        billKw   == FirstKeyword(billing_keywords, text)
        authKw   == FirstAuthKeyword(name, path)
    IN  IF unsafeKw # 0
        THEN Record("unsafe", "false",
                    "Contains destructive keyword: '"
                        \o unsafe_keywords[unsafeKw] \o "'", 90)
        ELSE IF billKw # 0
        THEN Record("unsafe", "false",
                    "Billing/payment operation: '"
                        \o billing_keywords[billKw] \o "'", 85)
        ELSE IF authKw # 0
        THEN Record("unsafe", "false",
                    "Authentication/security operation: '"
                        \o auth_keywords[authKw] \o "'", 80)
        ELSE NoRecord

\* variant: DELETE is treated as a write under the permissive policy
MethodRecord_DeleteByPolicy(method, text, policy) ==
    IF InList(method, safe_methods)
    THEN SafeMethodRecord(method, text)
    ELSE IF InList(method, unsafe_methods) /\ policy # "permissive"
    THEN Record("unsafe", "false", "Destructive " \o method \o " operation", 95)
    ELSE IF InList(method, write_methods) \/ InList(method, unsafe_methods)
    THEN WriteMethodRecord(method, text, policy)
    ELSE Record("unknown", "review", "Unable to classify automatically", 30)

\* variant: a method outside the three lists is blocked
MethodRecord_UnknownBlocked(method, text, policy) ==
    IF InList(method, safe_methods)
    THEN SafeMethodRecord(method, text)
    ELSE IF InList(method, unsafe_methods)
    THEN Record("unsafe", "false", "Destructive " \o method \o " operation", 95)
    ELSE IF InList(method, write_methods)
    THEN WriteMethodRecord(method, text, policy)
    ELSE Record("unknown", "false", "Unable to classify automatically", 30)

\* the method checks that follow the keyword loops
MethodRecord(method, text, policy) ==
    IF InList(method, safe_methods)
    THEN SafeMethodRecord(method, text)
    ELSE IF InList(method, unsafe_methods)
    THEN Record("unsafe", "false", "Destructive " \o method \o " operation", 95)
    ELSE IF InList(method, write_methods)
    THEN WriteMethodRecord(method, text, policy)
    ELSE Record("unknown", "review", "Unable to classify automatically", 30)

\* variant: the permissive policy skips the billing rule
apply_rules_PermissiveSkipsBilling(tool, policy) ==
    LET name   == lower(Get(tool, "name"))
        method == upper(Get(tool, "method"))
        path   == lower(Get(tool, "path"))
        text   == combined_text(tool)
        byKeyword == KeywordRecord(name, path, text)
    IN  IF byKeyword # NoRecord /\ ~(policy = "permissive" /\ byKeyword.confidence = 85)
        THEN byKeyword
        ELSE MethodRecord(method, text, policy)

apply_rules(tool, policy) ==
    LET name   == lower(Get(tool, "name"))
        method == upper(Get(tool, "method"))
        path   == lower(Get(tool, "path"))
        text   == combined_text(tool)
        byKeyword == KeywordRecord(name, path, text)
    IN  IF byKeyword # NoRecord
        THEN byKeyword
        ELSE MethodRecord(method, text, policy)

----------------------------------------------------------------------------
(* Inputs                                                                  *)

\* a capability name is up to MaxNameParts parts joined without separator
MaxNameParts == 2

NameParts == {"delete", "create", "Order", "Widget", "Key"}

RECURSIVE NamesOfLength(_)
NamesOfLength(n) ==
    IF n = 0 THEN {""}
    ELSE {p \o rest : p \in NameParts, rest \in NamesOfLength(n - 1)}

\* the capability names of the documented examples, and two more
ExampleNames ==
    {"deleteUser", "listUsers", "createOrder", "createWidget", "updateUser", "ping"}

Names == ExampleNames \cup UNION {NamesOfLength(n) : n \in 0..MaxNameParts}

Descriptions ==
    {"", "List all users", "Place a new order", "Create a widget",
     "Rotate the session secret", "Remove a user"}

Paths == {"", "/auth/login", "/users/{id}/cancel"}

Methods == {"GET", "get", "HEAD", "OPTIONS", "DELETE", "POST", "put", "PATCH",
            "FUNCTION"}

\* a policy string outside PolicyType, as DiscoverRequest.policy: str admits
OtherPolicies == {"strict"}

\* raw tool dicts; the "method" key may be absent
Tools ==
    {[name |-> n, description |-> d, path |-> p, method |-> m] :
        n \in Names, d \in Descriptions, p \in Paths, m \in Methods}
    \cup
    {[name |-> n, description |-> d, path |-> p] :
        n \in Names, d \in Descriptions, p \in Paths}

----------------------------------------------------------------------------
(* classify_tools in rule mode                                             *)

\* result["name"] = tool.get("name", "")
WithName(rec, name) ==
    [classification |-> rec.classification, expose |-> rec.expose,
     reason |-> rec.reason, confidence |-> rec.confidence, name |-> name]

\* variant: the rule engine writes its verdict back into the tool dict
ToolAfterRules_Annotated(t) ==
    [k \in DOMAIN t \cup {"classification"} |->
        IF k = "classification" THEN "seen" ELSE t[k]]

\* the tool dict after apply_rules(tool, policy): it is read through .get only
ToolAfterRules(t) == t

\* the rule loop of classify_tools
RuleRecords(tools, p) ==
    [i \in 1..Len(tools) |->
        WithName(apply_rules(tools[i], p), Get(tools[i], "name"))]

\* an item of the classifications list is a dict unless the external
\* strategy produced something else; the marker key stands for a non-dict
IsDict(c) == "$nondict" \notin DOMAIN c

\* sum(1 for c in classifications if c.get("expose") <test>), where the test
\* accepts the values in `accepted`
CountExpose(records, accepted) ==
    Cardinality({i \in 1..Len(records) :
                    "expose" \in DOMAIN records[i] /\ records[i].expose \in accepted})

\* the summary dict; isTrue / isFalse are the values the True / False tests accept
Summarize(total, records, isTrue, isFalse) ==
    [total        |-> total,
     exposable    |-> CountExpose(records, isTrue),
     blocked      |-> CountExpose(records, isFalse),
     needs_review |-> CountExpose(records, {"review"})]

\* `c.get("expose") is True`, `is False`
IsTrue == {"true"}
IsFalse == {"false"}

\* `c.get("expose") == True`, `== False`: the JSON numbers 1 and 0 are equal
\* to the booleans
EqTrue == {"true", "1"}
EqFalse == {"false", "0"}

\* classify_tools(tools, policy, use_gemini=False, use_reasoning=False)
classify_tools_rules(tools, p) ==
    IF tools = <<>>
    THEN [summary |-> [total |-> 0, exposable |-> 0, blocked |-> 0, needs_review |-> 0],
          classifications |-> <<>>]
    ELSE LET records == RuleRecords(tools, p)
         IN  [policy |-> p,
              summary |-> Summarize(Len(tools), records, IsTrue, IsFalse),
              classifications |-> records]

----------------------------------------------------------------------------
(* classify_batch_with_gemini and enhance_with_reasoning                   *)

\* tools[i:i + batch_size], with i counted from 1
BatchAt(tools, i, size) ==
    SubSeq(tools, i, IF i + size - 1 < Len(tools) THEN i + size - 1 ELSE Len(tools))

\* the except branch: apply_rules per tool of the batch, result["name"] = tool["name"]
FallbackRecords(batch, p) ==
    [k \in 1..Len(batch) |-> WithName(apply_rules(batch[k], p), batch[k].name)]

\* tool["name"] raises KeyError
FallbackRaises(batch) == \E k \in 1..Len(batch) : "name" \notin DOMAIN batch[k]

\* variant: the fallback classifies the whole list again
ResultsAfterFail_WholeList(results, tools, i, size, p) ==
    results \o RuleRecords(tools, p)

\* results after the except branch of the batch that starts at i
ResultsAfterFail(results, tools, i, size, p) ==
    results \o FallbackRecords(BatchAt(tools, i, size), p)

\* results.extend(batch_results)
ResultsAfterOk(results, response) == results \o response

\* variant: every record is sent to the reasoning model
EdgeCases_All(tools, records) ==
    LET n == IF Len(tools) < Len(records) THEN Len(tools) ELSE Len(records)
    IN  [k \in 1..n |-> k]

\* edge cases of enhance_with_reasoning: indices of zip(tools, classifications)
\* whose record asks for review or has confidence below 0.6 (default 1.0)
EdgeCases(tools, records) ==
    LET n == IF Len(tools) < Len(records) THEN Len(tools) ELSE Len(records)
        IsEdge(c) ==
            \/ ("expose" \in DOMAIN c /\ c.expose = "review")
            \/ ("confidence" \in DOMAIN c /\ c.confidence < 60)
        RECURSIVE From(_)
        From(k) == IF k > n THEN <<>>
                   ELSE IF IsEdge(records[k]) THEN <<k>> \o From(k + 1)
                   ELSE From(k + 1)
    IN  From(1)

\* classification.get(...) on an item that is no dict raises AttributeError
EdgeScanRaises(tools, records) ==
    LET n == IF Len(tools) < Len(records) THEN Len(tools) ELSE Len(records)
    IN  \E k \in 1..n : ~IsDict(records[k])

\* the four assignments that apply a parsed answer to classifications[idx]
Enhanced(c, answer) ==
    [k \in DOMAIN c \cup {"expose", "reason", "confidence", "enhanced"} |->
        IF k = "expose"
        THEN (IF "expose" \in DOMAIN answer THEN answer.expose ELSE "review")
        ELSE IF k = "reason"
        THEN (IF "reason" \in DOMAIN answer THEN answer.reason
              ELSE IF "reason" \in DOMAIN c THEN c.reason ELSE "None")
        ELSE IF k = "confidence"
        THEN (IF "confidence" \in DOMAIN answer THEN answer.confidence ELSE 70)
        ELSE IF k = "enhanced" THEN "true"
        ELSE c[k]]

----------------------------------------------------------------------------
(* Inputs of the classification runs                                       *)

\* length of a capability list
MaxTools == 3

\* number of classification runs over one capability list
MaxRuns == 3

RunTools ==
    {[name |-> "listUsers", description |-> "List all users", method |-> "GET",
      path |-> "/users"],
     [name |-> "ping", description |-> "", method |-> "POST", path |-> ""],
     [description |-> "Place a new order", method |-> "POST", path |-> "/orders"]}

\* the batch_size argument (20 by default), scaled to the short lists
BatchSize == 2

\* the exposure values an external answer may carry: the three legal ones,
\* a JSON number and a free word
ExternalExpose == {"true", "review", "1", "maybe"}

RECURSIVE Reverse(_)
Reverse(seq) == IF seq = <<>> THEN <<>> ELSE Reverse(Tail(seq)) \o <<Head(seq)>>

\* one record per tool of the batch, in order, all with exposure e
Faithful(batch, e) ==
    [k \in 1..Len(batch) |->
        [name |-> Get(batch[k], "name"), classification |-> "conditional",
         expose |-> e, reason |-> "model", confidence |-> 90]]

\* what json.loads may hand to results.extend for one batch
Responses(batch) ==
    {Faithful(batch, e) : e \in ExternalExpose}
    \cup {[k \in 1..Len(batch) |->
              [name |-> Get(batch[k], "name"), classification |-> "safe"]]}
    \cup {SubSeq(Faithful(batch, "true"), 1, Len(batch) - 1)}
    \cup {Reverse(Faithful(batch, "true"))}
    \cup {<<[name |-> "name", classification |-> "str"] @@ ("$nondict" :> "str")>>}

\* what json.loads may return for one edge case
ReasoningAnswers ==
    {[expose |-> "true", reason |-> "reasoned", confidence |-> 90],
     [reason |-> "reasoned"],
     [expose |-> "maybe", confidence |-> 40]}

RECURSIVE ListsOfLength(_, _)
ListsOfLength(S, n) ==
    IF n = 0 THEN {<<>>}
    ELSE {<<x>> \o rest : x \in S, rest \in ListsOfLength(S, n - 1)}

ListsUpTo(S, n) == UNION {ListsOfLength(S, k) : k \in 0..n}

----------------------------------------------------------------------------
(* Documents: JSON values, _resolve_ref and _flatten_schema                *)

\* a parsed JSON/YAML value: mapping, list or scalar
Map(f) == [t |-> "map", v |-> f]
List(items) == [t |-> "list", v |-> items]
Str(x) == [t |-> "str", v |-> x]
EmptyMap == Map(<<>>)

\* an exception leaving the function
Raising(error) == [t |-> "raise", v |-> error]
IsRaise(x) == x.t = "raise"

\* str.lstrip(chars)
RECURSIVE LStrip(_, _)
LStrip(s, chars) ==
    IF s # "" /\ CharAt(s, 1) \in chars
    THEN LStrip(SubSeq(s, 2, Len(s)), chars)
    ELSE s

\* str.split(sep) for a one-character sep
RECURSIVE Split(_, _)
Split(s, sep) ==
    IF \E i \in 1..Len(s) : CharAt(s, i) = sep
    THEN LET i == CHOOSE i \in 1..Len(s) :
                      /\ CharAt(s, i) = sep
                      /\ \A j \in 1..(i - 1) : CharAt(s, j) # sep
         IN  <<SubSeq(s, 1, i - 1)>> \o Split(SubSeq(s, i + 1, Len(s)), sep)
    ELSE <<s>>

\* the loop `node = node.get(p, {})`: .get exists on mappings only
RECURSIVE Walk(_, _)
Walk(node, parts) ==
    IF parts = <<>> THEN node
    ELSE IF node.t # "map" THEN Raising("AttributeError")
    ELSE Walk(IF Head(parts) \in DOMAIN node.v THEN node.v[Head(parts)] ELSE EmptyMap,
              Tail(parts))

resolve_ref(spec, ref) == Walk(spec, Split(LStrip(ref, {"#", "/"}), "/"))

\* dict(schema): a copy of a mapping, {} of an empty list or string,
\* ValueError of the other lists and strings of the documents
DictOf(x) ==
    IF x.t = "map" THEN x
    ELSE IF x = List(<<>>) \/ x = Str("") THEN EmptyMap
    ELSE Raising("ValueError")

\* dict.update
Update(target, other) == other @@ target

\* one round of the allOf loop on the flattened sub-schema sub
MergeSub(merged, sub) ==
    LET m1 == Update(merged, sub.v)
    IN  IF "properties" \in DOMAIN sub.v
        THEN [m1 EXCEPT !["properties"] = Map(Update(@.v, sub.v["properties"].v))]
        ELSE m1

RECURSIVE MergeAll(_, _)
MergeAll(merged, subs) ==
    IF subs = <<>> THEN Map(merged)
    ELSE IF IsRaise(Head(subs)) THEN Head(subs)
    ELSE MergeAll(MergeSub(merged, Head(subs)), Tail(subs))

\* fuel counts the nested calls that are still possible; the code has no
\* guard, so running out of fuel is the interpreter's RecursionError
RECURSIVE flatten_schema(_, _, _)

\* if "$ref" in schema: schema = _resolve_ref(...); result = dict(schema)
Copied(spec, schema) ==
    IF schema.t = "map" /\ "$ref" \in DOMAIN schema.v
    THEN LET resolved == resolve_ref(spec, schema.v["$ref"].v)
         IN  IF IsRaise(resolved) THEN resolved ELSE DictOf(resolved)
    ELSE DictOf(schema)

\* the flattened values of a properties mapping, or the exception of one
FlatProperties(result, flat) ==
    IF \E k \in DOMAIN flat : IsRaise(flat[k])
    THEN flat[CHOOSE k \in DOMAIN flat : IsRaise(flat[k])]
    ELSE Map([result.v EXCEPT !["properties"] = Map(flat)])

\* variant: the property schemas are copied without being flattened
WithProperties_NoDescent(spec, result, fuel) == result

\* result["properties"] = {k: _flatten_schema(spec, v) ...}
WithProperties(spec, result, fuel) ==
    IF IsRaise(result) THEN result
    ELSE IF "properties" \notin DOMAIN result.v THEN result
    ELSE IF result.v["properties"].t # "map" THEN Raising("AttributeError")
    ELSE FlatProperties(result,
             [k \in DOMAIN result.v["properties"].v |->
                 flatten_schema(spec, result.v["properties"].v[k], fuel - 1)])

FlatItems(result, flat) ==
    IF IsRaise(flat) THEN flat ELSE Map([result.v EXCEPT !["items"] = flat])

\* result["items"] = _flatten_schema(spec, result["items"])
WithItems(spec, result, fuel) ==
    IF IsRaise(result) THEN result
    ELSE IF "items" \notin DOMAIN result.v THEN result
    ELSE FlatItems(result, flatten_schema(spec, result.v["items"], fuel - 1))

\* the allOf loop replaces the result by the merged mapping
WithAllOf(spec, result, fuel) ==
    IF IsRaise(result) THEN result
    ELSE IF "allOf" \notin DOMAIN result.v THEN result
    ELSE IF result.v["allOf"].t # "list" THEN Raising("TypeError")
    ELSE MergeAll(<<>>, [k \in 1..Len(result.v["allOf"].v) |->
                            flatten_schema(spec, result.v["allOf"].v[k], fuel - 1)])

flatten_schema(spec, schema, fuel) ==
    IF fuel = 0 THEN Raising("RecursionError")
    ELSE WithAllOf(spec,
             WithItems(spec, WithProperties(spec, Copied(spec, schema), fuel), fuel),
             fuel)

----------------------------------------------------------------------------
(* Inputs of reference resolution                                          *)

\* nested _flatten_schema calls the interpreter allows (scaled down)
MaxDepth == 4

\* the named schemas of the documents: a mapping, a list and a scalar
NamedSchemas ==
    "Pet" :> Map("type" :> Str("object")
                 @@ "properties" :> Map("name" :> Map("type" :> Str("string"))))
    @@ "Names" :> List(<<Str("a")>>)
    @@ "Title" :> Str("Pet store")

\* an OpenAPI 3.x document and a Swagger 2.x document
Documents ==
    {Map("openapi" :> Str("3.0.0")
         @@ "components" :> Map("schemas" :> Map(NamedSchemas))),
     Map("swagger" :> Str("2.0") @@ "definitions" :> Map(NamedSchemas))}

RefPrefixes == {"#/components/schemas", "#/components/missing", "#/definitions",
                "#/components"}

RefSuffixes == {"", "/Pet", "/Cat", "/Pet/type", "/Title/x", "/Names/0",
                "/Pet/properties/name"}

Refs == {prefix \o suffix : prefix \in RefPrefixes, suffix \in RefSuffixes}

\* where a schema carries the reference
Wrappers == {"self", "properties", "items"}

Wrapped(wrapper, fragment) ==
    IF wrapper = "self" THEN fragment
    ELSE IF wrapper = "properties"
    THEN Map("type" :> Str("object") @@ "properties" :> Map("p" :> fragment))
    ELSE Map("type" :> Str("array") @@ "items" :> fragment)

----------------------------------------------------------------------------
(* Normalizers: parse_openapi, parse_postman, _raw_tools_to_canonical      *)

\* models.HttpMethod and models.ParamLocation
HttpMethod == {"GET", "POST", "PUT", "PATCH", "DELETE", "HEAD", "OPTIONS"}
ParamLocation == {"query", "path", "header", "cookie", "body", "formData"}

\* the method keys parse_openapi looks up in a path item, in its order
OpenApiMethods == <<"get", "post", "put", "patch", "delete", "head", "options">>

\* no endpoint for this operation
Skipped == [t |-> "skip"]

\* the tag universe in the order of sorted()
TagOrder == <<"", "debug", "pets", "store">>

\* sorted(set of tags)
Sorted(tags) == SelectSeq(TagOrder, LAMBDA t : t \in tags)

\* every tag of every endpoint
AllTags(endpoints) ==
    UNION {{endpoints[k].tags[j] : j \in 1..Len(endpoints[k].tags)} :
              k \in 1..Len(endpoints)}

\* the document whose components the references of the operations name
RefDocument ==
    Map("openapi" :> Str("3.0.0")
        @@ "components" :> Map("schemas" :> Map(NamedSchemas)))

\* dict.get(key, {}) on a parsed mapping
MapGet(m, key) == IF key \in DOMAIN m.v THEN m.v[key] ELSE EmptyMap

RECURSIVE SetToSeq(_)
SetToSeq(S) ==
    IF S = {} THEN <<>>
    ELSE LET x == CHOOSE x \in S : TRUE IN <<x>> \o SetToSeq(S \ {x})

\* _parse_openapi_params: one ParamSchema per declared parameter, or ValueError
\* of ParamLocation(...)
parse_openapi_params(raw_params) ==
    IF \E k \in 1..Len(raw_params) :
           "in" \in DOMAIN raw_params[k] /\ raw_params[k]["in"] \notin ParamLocation
    THEN Raising("ValueError: ParamLocation")
    ELSE List([k \in 1..Len(raw_params) |->
                  [name |-> Get(raw_params[k], "name"),
                   location |-> IF "in" \in DOMAIN raw_params[k]
                                THEN raw_params[k]["in"] ELSE "query"]])

\* if "$ref" in body: body = _resolve_ref(spec, body["$ref"])
BodyOf(spec, body) ==
    IF "$ref" \in DOMAIN body.v THEN resolve_ref(spec, body.v["$ref"].v) ELSE body

\* schema = _flatten_schema(spec, body["content"]["application/json"]["schema"])
BodySchema(spec, body) ==
    IF IsRaise(body) THEN body
    ELSE flatten_schema(spec,
             MapGet(MapGet(MapGet(body, "content"), "application/json"), "schema"),
             MaxDepth)

\* one BODY ParamSchema per property, or the exception of flattening one
BodyParams(names, props) ==
    IF \E k \in 1..Len(names) : IsRaise(props[k])
    THEN props[CHOOSE k \in 1..Len(names) : IsRaise(props[k])]
    ELSE List([k \in 1..Len(names) |-> [name |-> names[k], location |-> "body"]])

\* the loop over schema.get("properties", {}).items()
SchemaParams(spec, schema, names) ==
    BodyParams(names, [k \in 1..Len(names) |->
        flatten_schema(spec, MapGet(schema, "properties").v[names[k]], MaxDepth)])

BodySchemaParams(spec, schema) ==
    IF IsRaise(schema) THEN schema
    ELSE SchemaParams(spec, schema, SetToSeq(DOMAIN MapGet(schema, "properties").v))

\* _parse_openapi_request_body: the BODY parameters of a requestBody
parse_openapi_request_body(spec, body) ==
    IF body = EmptyMap THEN List(<<>>)
    ELSE BodySchemaParams(spec, BodySchema(spec, BodyOf(spec, body)))

\* Endpoint(...) of the operation at position k, or the exception of its
\* parameters or of its request body
EndpointOf(k, op, params, body_params) ==
    IF IsRaise(params) THEN params
    ELSE IF IsRaise(body_params) THEN body_params
    ELSE [t |-> "endpoint", op |-> k,
          method |-> upper(op.method),
          operation_id |-> op.name,
          tags |-> op.tags,
          parameters |-> params.v \o body_params.v]

\* the endpoint parse_openapi appends for the operation at position k: each
\* operation sits under its method key in a path item of its own
OpenApiEndpoint(doc, k) ==
    IF ~InList(doc[k].method, OpenApiMethods) THEN Skipped
    ELSE EndpointOf(k, doc[k],
                    parse_openapi_params(doc[k].shared \o doc[k].parameters),
                    parse_openapi_request_body(RefDocument, doc[k].body))

\* the endpoint _walk_postman_items appends for the request node at position
\* k: the node sits in nested folders named by op.tags, its query holds the
\* declared parameters
PostmanEndpoint(doc, k) ==
    LET op == doc[k]
        tag_prefix == IF op.tags = <<>> THEN "" ELSE op.tags[Len(op.tags)]
    IN  IF upper(op.method) \notin HttpMethod THEN Raising("ValueError: HttpMethod")
        ELSE [t |-> "endpoint", op |-> k,
              method |-> upper(op.method),
              operation_id |-> "",
              tags |-> IF tag_prefix # "" THEN <<tag_prefix>> ELSE <<>>,
              parameters |-> [j \in 1..Len(op.parameters) |->
                                 [name |-> Get(op.parameters[j], "name"),
                                  location |-> "query"]]]

\* the endpoint _raw_tools_to_canonical appends for the raw tool at position k
RawEndpoint(doc, k) ==
    LET rt == doc[k]
        method_str == IF upper(rt.method) = "FUNCTION" THEN "POST" ELSE upper(rt.method)
    IN  [t |-> "endpoint", op |-> k,
         method |-> IF method_str \in HttpMethod THEN method_str ELSE "GET",
         operation_id |-> rt.name,
         tags |-> rt.tags,
         parameters |-> [j \in 1..Len(rt.parameters) |->
                            [name |-> Get(rt.parameters[j], "name"),
                             location |->
                                 IF "in" \notin DOMAIN rt.parameters[j] THEN "query"
                                 ELSE IF rt.parameters[j]["in"] \in ParamLocation
                                 THEN rt.parameters[j]["in"]
                                 ELSE "query"]]]

RECURSIVE Appended(_)
Appended(items) ==
    IF items = <<>> THEN <<>>
    ELSE IF Head(items) = Skipped THEN Appended(Tail(items))
    ELSE <<Head(items)>> \o Appended(Tail(items))

\* the endpoints in document order, or the first exception
Endpoints(items) ==
    IF \E k \in 1..Len(items) : IsRaise(items[k])
    THEN items[CHOOSE k \in 1..Len(items) :
                   IsRaise(items[k]) /\ \A j \in 1..(k - 1) : ~IsRaise(items[j])]
    ELSE List(Appended(items))

\* APISpec(endpoints=endpoints, tags=sorted(all_tags)), or the exception
SpecOf(endpoints) ==
    IF IsRaise(endpoints) THEN endpoints
    ELSE [t |-> "spec", endpoints |-> endpoints.v,
          tags |-> Sorted(AllTags(endpoints.v))]

\* parse_openapi: all_tags.update(tags) per operation, tags=sorted(all_tags)
parse_openapi(doc) ==
    SpecOf(Endpoints([k \in 1..Len(doc) |-> OpenApiEndpoint(doc, k)]))

\* parse_postman: sorted({t for ep in endpoints for t in ep.tags})
parse_postman(doc) ==
    SpecOf(Endpoints([k \in 1..Len(doc) |-> PostmanEndpoint(doc, k)]))

\* _raw_tools_to_canonical: the empty tags are left out of spec.tags
raw_tools_to_canonical(doc) ==
    LET endpoints == [k \in 1..Len(doc) |-> RawEndpoint(doc, k)]
    IN  [t |-> "spec", endpoints |-> endpoints,
         tags |-> Sorted(AllTags(endpoints) \ {""})]

\* every list that keeps some of the items, in order
RECURSIVE Selections(_)
Selections(items) ==
    IF items = <<>> THEN {<<>>}
    ELSE LET rest == Selections(Tail(items))
         IN  rest \cup {<<Head(items)>> \o r : r \in rest}

----------------------------------------------------------------------------
(* Inputs of the normalizers                                               *)

MaxOps == 2

\* operations as a source document declares them; each is read as an OpenAPI
\* operation, as a collection request node or as a raw tool descriptor
Operations ==
    {[name |-> "listPets", method |-> "get", tags |-> <<"pets">>,
      shared |-> <<[name |-> "petId", in |-> "path"]>>,
      parameters |-> <<[name |-> "limit"]>>, body |-> EmptyMap],
     [name |-> "addPet", method |-> "post", tags |-> <<"store", "pets">>,
      shared |-> <<>>, parameters |-> <<>>,
      body |-> Map("content" :> Map("application/json" :> Map("schema" :>
                   Map("$ref" :> Str("#/components/schemas/Pet")))))],
     [name |-> "updatePet", method |-> "put", tags |-> <<"">>,
      shared |-> <<>>, parameters |-> <<[name |-> "body", in |-> "body"]>>,
      body |-> EmptyMap],
     [name |-> "tracePet", method |-> "trace", tags |-> <<"debug">>,
      shared |-> <<>>, parameters |-> <<>>, body |-> EmptyMap],
     [name |-> "callPet", method |-> "FUNCTION", tags |-> <<>>,
      shared |-> <<>>, parameters |-> <<[name |-> "x", in |-> "args"]>>,
      body |-> EmptyMap],
     [name |-> "findPet", method |-> "get", tags |-> <<"pets">>,
      shared |-> <<>>, parameters |-> <<[name |-> "m", in |-> "matrix"]>>,
      body |-> EmptyMap]}

----------------------------------------------------------------------------
(* Inputs of schema flattening                                             *)

\* the longest allOf list
MaxSubs == 3

RefTo(name) == Map("$ref" :> Str("#/components/schemas/" \o name))

\* the named schemas: A and B declare different properties, X1 and X2 the
\* same one, Alias is a reference to A, Node, Tree and Loop reach themselves
\* through properties, items and allOf
FlattenSchemas ==
    "A" :> Map("title" :> Str("A")
               @@ "properties" :> Map("a" :> Map("type" :> Str("string"))))
    @@ "B" :> Map("title" :> Str("B")
                  @@ "properties" :> Map("b" :> Map("type" :> Str("integer"))))
    @@ "X1" :> Map("properties" :> Map("x" :> Map("type" :> Str("string"))))
    @@ "X2" :> Map("properties" :> Map("x" :> Map("type" :> Str("integer"))))
    @@ "Alias" :> RefTo("A")
    @@ "Node" :> Map("properties" :> Map("next" :> RefTo("Node")))
    @@ "Tree" :> Map("type" :> Str("array") @@ "items" :> RefTo("Tree"))
    @@ "Loop" :> Map("allOf" :> List(<<RefTo("Loop")>>))

FlattenDocument ==
    Map("openapi" :> Str("3.0.0")
        @@ "components" :> Map("schemas" :> Map(FlattenSchemas)))

\* a sub-schema: a reference to a named schema or an inline schema
SubSchemas ==
    {RefTo(name) : name \in DOMAIN FlattenSchemas}
    \cup {Map("title" :> Str("inline")
              @@ "properties" :> Map("x" :> Map("type" :> Str("boolean"))))}

AllOf(subs) == Map("type" :> Str("object") @@ "allOf" :> List(subs))

\* the schema fragments handed to _flatten_schema
Fragments ==
    {Wrapped(wrapper, sub) : wrapper \in Wrappers, sub \in SubSchemas}
    \cup {AllOf(subs) : subs \in UNION {ListsOfLength(SubSchemas, n) : n \in 1..MaxSubs}}

----------------------------------------------------------------------------
(* _walk_postman_items on the item tree of a collection                    *)

\* _postman_method: HttpMethod(req.get("method", "GET").upper())
postman_method(item) ==
    upper(IF "request" \in DOMAIN item /\ "method" \in DOMAIN item.request
          THEN item.request.method
          ELSE "GET")

\* _postman_url for a url given as a string: the path is the string; a
\* request without a url has the path "/"
postman_url(item) ==
    IF "request" \in DOMAIN item /\ "url" \in DOMAIN item.request
    THEN item.request.url
    ELSE "/"

\* the Endpoint of a request node; the requests of the trees have no query,
\* header or body entries, so _postman_params gives []
RequestEndpoint(item, tag_prefix) ==
    IF postman_method(item) \notin HttpMethod THEN Raising("ValueError: HttpMethod")
    ELSE List(<<[t |-> "endpoint",
                 method |-> postman_method(item),
                 path |-> postman_url(item),
                 operation_id |-> "",
                 summary |-> Get(item, "name"),
                 tags |-> IF tag_prefix # "" THEN <<tag_prefix>> ELSE <<>>,
                 parameters |-> <<>>]>>)

\* endpoints.extend / endpoints.append, or the exception of either part
Extended(first, rest) ==
    IF IsRaise(first) THEN first
    ELSE IF IsRaise(rest) THEN rest
    ELSE List(first.v \o rest.v)

RECURSIVE walk_postman_items(_, _)

\* one round of the loop: a folder is an item with an "item" key
ItemEndpoints(item, tag_prefix) ==
    IF "item" \in DOMAIN item
    THEN walk_postman_items(item.item, Get(item, "name"))
    ELSE RequestEndpoint(item, tag_prefix)

walk_postman_items(items, tag_prefix) ==
    IF items = <<>> THEN List(<<>>)
    ELSE Extended(ItemEndpoints(Head(items), tag_prefix),
                  walk_postman_items(Tail(items), tag_prefix))

----------------------------------------------------------------------------
(* Inputs of the item walk                                                 *)

\* the longest top-level item list
MaxItems == 2

\* request nodes: a declared verb, no verb, a verb HttpMethod does not have
\* and no name
RequestNodes ==
    {[name |-> "list", request |-> [method |-> "get", url |-> "/users"]],
     [name |-> "add", request |-> [url |-> "/users"]],
     [request |-> [method |-> "propfind", url |-> "/files"]]}

ValidRequests ==
    <<[name |-> "list", request |-> [method |-> "get", url |-> "/users"]],
      [name |-> "add", request |-> [url |-> "/users"]]>>

\* folders of requests: named, with an empty name, without a name
InnerFolders ==
    {[name |-> name, item |-> SubSeq(ValidRequests, 1, n)] :
        name \in {"Users", ""}, n \in 0..2}
    \cup {[item |-> SubSeq(ValidRequests, 1, 1)]}

\* folders holding a folder and a request of their own
OuterFolders ==
    {[name |-> "Admin", item |-> <<folder, ValidRequests[2]>>] : folder \in InnerFolders}

ItemNodes == RequestNodes \cup InnerFolders \cup OuterFolders

ItemTrees == UNION {ListsOfLength(ItemNodes, n) : n \in 0..MaxItems}

----------------------------------------------------------------------------
(* _fetch_url: the fetch of a specification and the discovery of its URL   *)

\* str.rstrip(chars)
RECURSIVE RStrip(_, _)
RStrip(s, chars) ==
    IF s # "" /\ CharAt(s, Len(s)) \in chars
    THEN RStrip(SubSeq(s, 1, Len(s) - 1), chars)
    ELSE s

\* sep.join(parts)
RECURSIVE Join(_, _)
Join(parts, sep) ==
    IF parts = <<>> THEN ""
    ELSE IF Len(parts) = 1 THEN parts[1]
    ELSE parts[1] \o sep \o Join(Tail(parts), sep)

\* urlparse(url) of an address scheme://netloc[/path]
urlparse(url) ==
    [scheme |-> RStrip(Split(url, "/")[1], {":"}),
     netloc |-> Split(url, "/")[3],
     path |-> IF Len(Split(url, "/")) > 3
              THEN "/" \o Join(SubSeq(Split(url, "/"), 4, Len(Split(url, "/"))), "/")
              ELSE ""]

\* base = f"{parsed.scheme}://{parsed.netloc}"
BaseOf(url) == urlparse(url).scheme \o "://" \o urlparse(url).netloc

SpecKeywords == <<"swagger", "openapi", "api-docs", ".json", ".yaml">>

\* any(kw in match.lower() for kw in (...))
HasSpecKeyword(match) ==
    \E k \in 1..Len(SpecKeywords) : Contains(SpecKeywords[k], lower(match))

RECURSIVE KeywordMatches(_)
KeywordMatches(matches) ==
    IF matches = <<>> THEN <<>>
    ELSE (IF HasSpecKeyword(Head(matches)) THEN <<Head(matches)>> ELSE <<>>)
         \o KeywordMatches(Tail(matches))

\* the common fallback patterns, under path_base = parsed.path.rstrip("/")
FallbackPaths(path_base) ==
    <<path_base \o "/v2/swagger.json",
      path_base \o "/v3/api-docs",
      path_base \o "/swagger.json",
      path_base \o "/openapi.json",
      "/v2/swagger.json",
      "/v3/api-docs",
      "/openapi.json",
      "/swagger.json",
      "/api/openapi.json">>

\* variant: the fallback patterns are tried before the references of the page
spec_url_candidates_FallbackFirst(url, matches) ==
    FallbackPaths(RStrip(urlparse(url).path, {"/"})) \o KeywordMatches(matches)

\* the candidate list: the url references of the page that hold a keyword,
\* then the fallback patterns
spec_url_candidates(url, matches) ==
    KeywordMatches(matches) \o FallbackPaths(RStrip(urlparse(url).path, {"/"}))

StartsWith(s, prefix) == Len(s) >= Len(prefix) /\ SubSeq(s, 1, Len(prefix)) = prefix

\* the address probed for a candidate
SpecUrlOf(base, candidate) ==
    IF StartsWith(candidate, "http") THEN candidate
    ELSE IF StartsWith(candidate, "/") THEN base \o candidate
    ELSE base \o "/" \o candidate

\* a response body: text that is no JSON, or the text of a JSON value
Text(x) == [t |-> "text", v |-> x]

\* json.loads(r.text)
JsonLoads(body) == IF body.t = "text" THEN Raising("JSONDecodeError") ELSE body

\* what the probe of one candidate leaves: the document to return, or
\* nothing when the request raised, the status is not 200, the body is no
\* JSON or the JSON value is no mapping with an openapi or swagger key
Skip == Raising("skip")

Probed(response) ==
    IF response.raises THEN Skip
    ELSE IF response.status # 200 THEN Skip
    ELSE IF IsRaise(JsonLoads(response.body)) THEN Skip
    ELSE IF /\ JsonLoads(response.body).t = "map"
            /\ \/ "openapi" \in DOMAIN JsonLoads(response.body).v
               \/ "swagger" \in DOMAIN JsonLoads(response.body).v
    THEN JsonLoads(response.body)
    ELSE Skip

NotFound(url) ==
    Raising("ValueError: Could not find an OpenAPI/Swagger spec at " \o url
            \o ". Try providing the direct URL to the spec JSON/YAML")

----------------------------------------------------------------------------
(* Inputs of the fetch                                                     *)

\* the most url references a fetched page holds
MaxMatches == 2

FetchUrls == {"https://api.test/docs/", "https://api.test"}

\* what the pattern url: "..." finds in a page
PageMatches ==
    {"/v2/swagger.json", "spec/OpenAPI.yaml", "https://cdn.test/api-docs", "/static/logo.png"}

Pages == ListsUpTo(PageMatches, MaxMatches)

Bodies ==
    {Text("<html>"),
     List(<<>>),
     Map("info" :> Str("no version")),
     Map("openapi" :> Str("3.0.0")),
     Map("swagger" :> Str("2.0"))}

NoResponse == [raises |-> FALSE, status |-> 0, body |-> Text("")]

\* what the server may do with a request
Responses200 == {[raises |-> FALSE, status |-> 200, body |-> body] : body \in Bodies}

ProbeResponses ==
    {[raises |-> TRUE, status |-> 0, body |-> Text("")]}
    \cup Responses200
    \cup {[raises |-> FALSE, status |-> 404, body |-> body] :
             body \in {Text("<html>"), Map("openapi" :> Str("3.0.0"))}}

\* the first response: a JSON or YAML mapping, a page, an error status, or
\* the request raises
FirstResponses == {"mapping", "page", "status", "raises"}

----------------------------------------------------------------------------
(* api_server: the file-backed sessions and the handlers that use them      *)

\* Python None
NoneValue == [t |-> "none"]

\* `not x` of None, of a string, of an object
Falsy(x) == x = NoneValue \/ x = Str("")

\* str.replace(old, new) for a one-character old
RECURSIVE Replace(_, _, _)
Replace(s, old, new) ==
    IF s = "" THEN ""
    ELSE (IF CharAt(s, 1) = old THEN new ELSE CharAt(s, 1))
         \o Replace(SubSeq(s, 2, Len(s)), old, new)

\* name = req.server_name or None
ServerName(server_name) == IF Falsy(server_name) THEN NoneValue ELSE server_name

\* OUTPUT_ROOT / (name or api_spec.title.lower().replace(" ", "-") + "-mcp")
OutputDir(name, title) ==
    IF ~Falsy(name) THEN Str("output/" \o name.v)
    ELSE Str("output/" \o Replace(lower(title), " ", "-") \o "-mcp")

\* the dict api_ingest saves for a new session
NewSession(title, tools) ==
    [title |-> title, tools |-> tools, classifications |-> "moderate",
     generated |-> NoneValue, output_dir |-> NoneValue]

\* _load_session: the saved dict, or None when there is no file for the id
load_session(sessions, session_id) ==
    IF session_id \in DOMAIN sessions THEN sessions[session_id] ELSE NoneValue

\* _save_session: the file of the id is written
save_session(sessions, session_id, data) ==
    [k \in DOMAIN sessions \cup {session_id} |->
        IF k = session_id THEN data ELSE sessions[k]]

\* variant: the generate handler stores the output directory before the
\* generator has run
SessionAfterGenerate_DirFirst(sess, name, generator) ==
    IF IsRaise(generator)
    THEN [sess EXCEPT !.output_dir = OutputDir(name, sess.title)]
    ELSE [sess EXCEPT !.generated = generator,
                      !.output_dir = OutputDir(name, sess.title)]

\* the session api_generate leaves: as loaded when agentic_generate raised,
\* with the result and the output directory when it returned
SessionAfterGenerate(sess, name, generator) ==
    IF IsRaise(generator) THEN sess
    ELSE [sess EXCEPT !.generated = generator,
                      !.output_dir = OutputDir(name, sess.title)]

\* the precondition of api_deploy: `not output_dir or not generated`
NothingToDeploy(sess) == Falsy(sess.output_dir) \/ Falsy(sess.generated)

----------------------------------------------------------------------------
(* Inputs of the API calls                                                 *)

\* the ids uuid4 hands out, in the order of the ingest calls
SessionIds == <<"s1", "s2">>

\* the ids a client may name: the two above and one that is never created
RequestIds == {"s0", "s1", "s2"}

ToolNames == {"listPets", "addPet"}

AllowedTools == {{}, {"listPets"}}

ServerNames == {NoneValue, Str(""), Str("petstore")}

\* what agentic_generate does: it raises, or returns a result object
GeneratorOutcomes ==
    {Raising("RuntimeError"),
     [t |-> "result", server_name |-> "petstore", tool_count |-> 2]}

NoCall == [op |-> "", session_id |-> "", status |-> 0]

Call(op, session_id, status) == [op |-> op, session_id |-> session_id, status |-> status]

----------------------------------------------------------------------------
(* State                                                                   *)

\* one call of apply_rules
VARIABLES tool, policy, result, pc

\* repeated rule-mode runs over one capability list
VARIABLES s_tools, s_last, s_history

\* one run of classify_tools or classify, in any mode
VARIABLES b_entry, b_tools, b_policy, b_gemini, b_reasoning, b_pc, b_i,
          b_results, b_batches, b_edges, b_return, b_error

\* one call of _resolve_ref or _flatten_schema on a document
VARIABLES r_doc, r_ref, r_wrapper, r_pc, r_out

\* one ingestion: a document, the Spec a normalizer made of it, the session
VARIABLES g_doc, g_source, g_pc, g_spec, g_error, g_tools, g_raw_tools,
          g_classifications

\* one call of _flatten_schema on a schema fragment
VARIABLES f_schema, f_fuel, f_pc, f_out

\* one call of _walk_postman_items on an item tree
VARIABLES w_items, w_pc, w_out

\* one call of _fetch_url: the candidates, the addresses probed so far, the last response
VARIABLES h_url, h_matches, h_pc, h_base, h_cands, h_probed, h_last, h_out

\* one tool list classified by the rules under every policy
VARIABLES q_tool, q_pc, q_out

\* the session store, the last API call and its status, the sessions whose generation succeeded, the sessions deploy_to_github was called for
VARIABLES a_sessions, a_last, a_generations, a_deploys

rulesVars == <<tool, policy, result, pc>>

sessionVars == <<s_tools, s_last, s_history>>

batchVars == <<b_entry, b_tools, b_policy, b_gemini, b_reasoning, b_pc, b_i,
               b_results, b_batches, b_edges, b_return, b_error>>

resolveVars == <<r_doc, r_ref, r_wrapper, r_pc, r_out>>

ingestVars == <<g_doc, g_source, g_pc, g_spec, g_error, g_tools, g_raw_tools,
                g_classifications>>

flattenVars == <<f_schema, f_fuel, f_pc, f_out>>

walkVars == <<w_items, w_pc, w_out>>

fetchVars == <<h_url, h_matches, h_pc, h_base, h_cands, h_probed, h_last, h_out>>

policyVars == <<q_tool, q_pc, q_out>>

apiVars == <<a_sessions, a_last, a_generations, a_deploys>>

vars == <<rulesVars, sessionVars, batchVars, resolveVars, ingestVars, flattenVars, walkVars, fetchVars, policyVars, apiVars>>

NoRun == [classifications |-> <<>>]

RulesIdle ==
    /\ tool = [name |-> ""]
    /\ policy = ""
    /\ result = NoRecord
    /\ pc = "idle"

SessionIdle ==
    /\ s_tools = <<>>
    /\ s_last = NoRun
    /\ s_history = <<>>

BatchBlank ==
    /\ b_entry = ""
    /\ b_policy = ""
    /\ b_gemini = FALSE
    /\ b_reasoning = FALSE
    /\ b_i = 1
    /\ b_results = <<>>
    /\ b_batches = <<>>
    /\ b_edges = <<>>
    /\ b_return = NoRun
    /\ b_error = ""

BatchIdle ==
    /\ b_tools = <<>>
    /\ b_pc = "idle"
    /\ BatchBlank

ResolveIdle ==
    /\ r_doc = EmptyMap
    /\ r_ref = ""
    /\ r_wrapper = ""
    /\ r_pc = "idle"
    /\ r_out = EmptyMap

NoSpec == [t |-> "spec", endpoints |-> <<>>, tags |-> <<>>]

IngestBlank ==
    /\ g_source = ""
    /\ g_spec = NoSpec
    /\ g_error = ""
    /\ g_tools = <<>>
    /\ g_raw_tools = <<>>
    /\ g_classifications = NoRun

IngestIdle ==
    /\ g_doc = <<>>
    /\ g_pc = "idle"
    /\ IngestBlank

FlattenIdle ==
    /\ f_schema = EmptyMap
    /\ f_fuel = 0
    /\ f_pc = "idle"
    /\ f_out = EmptyMap

WalkIdle ==
    /\ w_items = <<>>
    /\ w_pc = "idle"
    /\ w_out = List(<<>>)

FetchIdle ==
    /\ h_url = ""
    /\ h_matches = <<>>
    /\ h_pc = "idle"
    /\ h_base = ""
    /\ h_cands = <<>>
    /\ h_probed = <<>>
    /\ h_last = NoResponse
    /\ h_out = EmptyMap

PoliciesIdle ==
    /\ q_tool = [name |-> ""]
    /\ q_pc = "idle"
    /\ q_out = <<>>

ApiIdle ==
    /\ a_sessions = <<>>
    /\ a_last = NoCall
    /\ a_generations = {}
    /\ a_deploys = {}

Init ==
    /\ tool \in Tools
    /\ policy = ""
    /\ result = NoRecord
    /\ pc = "call"
    /\ SessionIdle
    /\ BatchIdle
    /\ ResolveIdle
    /\ IngestIdle
    /\ FlattenIdle
    /\ WalkIdle
    /\ FetchIdle
    /\ PoliciesIdle
    /\ ApiIdle

\* one call apply_rules(tool, p)
ApplyRules(p) ==
    /\ pc = "call"
    /\ policy' = p
    /\ result' = apply_rules(tool, p)
    /\ pc' = "done"
    /\ UNCHANGED tool
    /\ UNCHANGED <<sessionVars, batchVars, resolveVars, ingestVars, flattenVars, walkVars, fetchVars, policyVars, apiVars>>

Next == \E p \in PolicyType \cup OtherPolicies : ApplyRules(p)

Spec == Init /\ [][Next]_vars

----------------------------------------------------------------------------
(* Repeated rule-mode runs: the caller keeps one capability list and calls *)
(* classify_tools on it with varying policies                              *)

InitSession ==
    /\ s_tools \in ListsUpTo(RunTools, MaxTools)
    /\ s_last = NoRun
    /\ s_history = <<>>
    /\ RulesIdle
    /\ BatchIdle
    /\ ResolveIdle
    /\ IngestIdle
    /\ FlattenIdle
    /\ WalkIdle
    /\ FetchIdle
    /\ PoliciesIdle
    /\ ApiIdle

\* classify_tools(s_tools, p): the list object is shared with the callee
ClassifyRun(p) ==
    /\ Len(s_history) < MaxRuns
    /\ s_last' = classify_tools_rules(s_tools, p)
    /\ s_tools' = [i \in 1..Len(s_tools) |-> ToolAfterRules(s_tools[i])]
    /\ s_history' = Append(s_history,
                           [policy |-> p, before |-> s_tools, returned |-> s_last'])
    /\ UNCHANGED <<rulesVars, batchVars, resolveVars, ingestVars, flattenVars, walkVars, fetchVars, policyVars, apiVars>>

NextSession == \E p \in PolicyType : ClassifyRun(p)

SpecSession == InitSession /\ [][NextSession]_vars

----------------------------------------------------------------------------
(* One run of classify_tools or of the file-based classify, step by step   *)

Entries == {"classify_tools", "classify"}

InitBatch ==
    /\ b_tools \in ListsUpTo(RunTools, MaxTools)
    /\ b_pc = "start"
    /\ BatchBlank
    /\ RulesIdle
    /\ SessionIdle
    /\ ResolveIdle
    /\ IngestIdle
    /\ FlattenIdle
    /\ WalkIdle
    /\ FetchIdle
    /\ PoliciesIdle
    /\ ApiIdle

Raise(error) ==
    /\ b_pc' = "error"
    /\ b_error' = error

\* entry of the run: the arguments and the empty-list test
StartRun(entry, p, use_gemini, use_reasoning) ==
    /\ b_pc = "start"
    /\ b_entry' = entry
    /\ b_policy' = p
    /\ b_gemini' = use_gemini
    /\ b_reasoning' = use_reasoning
    /\ IF b_tools = <<>>
       THEN IF entry = "classify_tools"
            THEN /\ b_return' = [summary |-> [total |-> 0, exposable |-> 0,
                                              blocked |-> 0, needs_review |-> 0],
                                 classifications |-> <<>>]
                 /\ b_pc' = "done"
                 /\ UNCHANGED b_error
            ELSE /\ Raise("ValueError")
                 /\ UNCHANGED b_return
       ELSE /\ b_pc' = IF use_gemini THEN "gemini" ELSE "rules"
            /\ UNCHANGED <<b_return, b_error>>
    /\ UNCHANGED <<b_tools, b_i, b_results, b_batches, b_edges>>
    /\ UNCHANGED <<rulesVars, sessionVars, resolveVars, ingestVars, flattenVars, walkVars, fetchVars, policyVars, apiVars>>

\* the rule loop: classify reads tool["name"], classify_tools tool.get("name", "")
RulesLoop ==
    /\ b_pc = "rules"
    /\ IF b_entry = "classify" /\ FallbackRaises(b_tools)
       THEN /\ Raise("KeyError")
            /\ UNCHANGED b_results
       ELSE /\ b_results' = RuleRecords(b_tools, b_policy)
            /\ b_pc' = "classified"
            /\ UNCHANGED b_error
    /\ UNCHANGED <<b_entry, b_tools, b_policy, b_gemini, b_reasoning, b_i,
                   b_batches, b_edges, b_return>>
    /\ UNCHANGED <<rulesVars, sessionVars, resolveVars, ingestVars, flattenVars, walkVars, fetchVars, policyVars, apiVars>>

\* classify_batch_with_gemini without GEMINI_API_KEY
GeminiNoKey ==
    /\ b_pc = "gemini"
    /\ Raise("ValueError")
    /\ UNCHANGED <<b_entry, b_tools, b_policy, b_gemini, b_reasoning, b_i,
                   b_results, b_batches, b_edges, b_return>>
    /\ UNCHANGED <<rulesVars, sessionVars, resolveVars, ingestVars, flattenVars, walkVars, fetchVars, policyVars, apiVars>>

\* the key is there: results = [] and the loop over the batches begins
GeminiBegin ==
    /\ b_pc = "gemini"
    /\ b_pc' = "batch"
    /\ b_i' = 1
    /\ b_results' = <<>>
    /\ UNCHANGED <<b_entry, b_tools, b_policy, b_gemini, b_reasoning,
                   b_batches, b_edges, b_return, b_error>>
    /\ UNCHANGED <<rulesVars, sessionVars, resolveVars, ingestVars, flattenVars, walkVars, fetchVars, policyVars, apiVars>>

AfterBatch ==
    /\ b_i' = b_i + BatchSize
    /\ b_pc' = IF b_i + BatchSize > Len(b_tools) THEN "classified" ELSE "batch"

\* the try branch of one batch ran to its end with the parsed response
GeminiBatchOk(response) ==
    /\ b_pc = "batch"
    /\ response \in Responses(BatchAt(b_tools, b_i, BatchSize))
    /\ b_results' = ResultsAfterOk(b_results, response)
    /\ b_batches' = Append(b_batches,
                       [first |-> b_i, failed |-> FALSE, at |-> Len(b_results) + 1,
                        response |-> response])
    /\ AfterBatch
    /\ UNCHANGED <<b_entry, b_tools, b_policy, b_gemini, b_reasoning,
                   b_edges, b_return, b_error>>
    /\ UNCHANGED <<rulesVars, sessionVars, resolveVars, ingestVars, flattenVars, walkVars, fetchVars, policyVars, apiVars>>

\* the request or the parsing of one batch raised: the except branch
GeminiBatchFail ==
    /\ b_pc = "batch"
    /\ IF FallbackRaises(BatchAt(b_tools, b_i, BatchSize))
       THEN /\ Raise("KeyError")
            /\ UNCHANGED <<b_results, b_batches, b_i>>
       ELSE /\ b_results' = ResultsAfterFail(b_results, b_tools, b_i, BatchSize, b_policy)
            /\ b_batches' = Append(b_batches,
                               [first |-> b_i, failed |-> TRUE, at |-> Len(b_results) + 1,
                                response |-> <<>>])
            /\ AfterBatch
            /\ UNCHANGED b_error
    /\ UNCHANGED <<b_entry, b_tools, b_policy, b_gemini, b_reasoning,
                   b_edges, b_return>>
    /\ UNCHANGED <<rulesVars, sessionVars, resolveVars, ingestVars, flattenVars, walkVars, fetchVars, policyVars, apiVars>>

\* use_reasoning is off
ReasoningSkip ==
    /\ b_pc = "classified"
    /\ ~b_reasoning
    /\ b_pc' = "summary"
    /\ UNCHANGED <<b_entry, b_tools, b_policy, b_gemini, b_reasoning, b_i,
                   b_results, b_batches, b_edges, b_return, b_error>>
    /\ UNCHANGED <<rulesVars, sessionVars, resolveVars, ingestVars, flattenVars, walkVars, fetchVars, policyVars, apiVars>>

\* enhance_with_reasoning without DEDALUS_API_KEY returns its argument
ReasoningNoKey ==
    /\ b_pc = "classified"
    /\ b_reasoning
    /\ b_pc' = "summary"
    /\ UNCHANGED <<b_entry, b_tools, b_policy, b_gemini, b_reasoning, b_i,
                   b_results, b_batches, b_edges, b_return, b_error>>
    /\ UNCHANGED <<rulesVars, sessionVars, resolveVars, ingestVars, flattenVars, walkVars, fetchVars, policyVars, apiVars>>

\* enhance_with_reasoning with a key: the scan for edge cases
ReasoningBegin ==
    /\ b_pc = "classified"
    /\ b_reasoning
    /\ IF EdgeScanRaises(b_tools, b_results)
       THEN /\ Raise("AttributeError")
            /\ UNCHANGED b_edges
       ELSE /\ b_edges' = EdgeCases(b_tools, b_results)
            /\ b_pc' = IF EdgeCases(b_tools, b_results) = <<>>
                       THEN "summary" ELSE "reasoning"
            /\ UNCHANGED b_error
    /\ UNCHANGED <<b_entry, b_tools, b_policy, b_gemini, b_reasoning, b_i,
                   b_results, b_batches, b_return>>
    /\ UNCHANGED <<rulesVars, sessionVars, resolveVars, ingestVars, flattenVars, walkVars, fetchVars, policyVars, apiVars>>

AfterEdge ==
    /\ b_edges' = Tail(b_edges)
    /\ b_pc' = IF Tail(b_edges) = <<>> THEN "summary" ELSE "reasoning"

\* one edge case answered with a JSON object
ReasonOk(answer) ==
    /\ b_pc = "reasoning"
    /\ b_results' = [b_results EXCEPT ![Head(b_edges)] = Enhanced(@, answer)]
    /\ AfterEdge
    /\ UNCHANGED <<b_entry, b_tools, b_policy, b_gemini, b_reasoning, b_i,
                   b_batches, b_return, b_error>>
    /\ UNCHANGED <<rulesVars, sessionVars, resolveVars, ingestVars, flattenVars, walkVars, fetchVars, policyVars, apiVars>>

\* the request or the parsing for one edge case raised: logged, record kept
ReasonFail ==
    /\ b_pc = "reasoning"
    /\ AfterEdge
    /\ UNCHANGED <<b_entry, b_tools, b_policy, b_gemini, b_reasoning, b_i,
                   b_results, b_batches, b_return, b_error>>
    /\ UNCHANGED <<rulesVars, sessionVars, resolveVars, ingestVars, flattenVars, walkVars, fetchVars, policyVars, apiVars>>

\* the three sums and the returned mapping; c.get on a str raises
Summarise ==
    /\ b_pc = "summary"
    /\ IF \E k \in 1..Len(b_results) : ~IsDict(b_results[k])
       THEN /\ Raise("AttributeError")
            /\ UNCHANGED b_return
       ELSE /\ b_return' =
                [policy |-> b_policy,
                 summary |-> IF b_entry = "classify_tools"
                             THEN Summarize(Len(b_tools), b_results, IsTrue, IsFalse)
                             ELSE Summarize(Len(b_tools), b_results, EqTrue, EqFalse),
                 classifications |-> b_results]
            /\ b_pc' = "done"
            /\ UNCHANGED b_error
    /\ UNCHANGED <<b_entry, b_tools, b_policy, b_gemini, b_reasoning, b_i,
                   b_results, b_batches, b_edges>>
    /\ UNCHANGED <<rulesVars, sessionVars, resolveVars, ingestVars, flattenVars, walkVars, fetchVars, policyVars, apiVars>>

NextBatch ==
    \/ \E entry \in Entries, p \in PolicyType, g \in BOOLEAN, r \in BOOLEAN :
          StartRun(entry, p, g, r)
    \/ RulesLoop
    \/ GeminiNoKey
    \/ GeminiBegin
    \/ \E response \in Responses(BatchAt(b_tools, b_i, BatchSize)) :
          GeminiBatchOk(response)
    \/ GeminiBatchFail
    \/ ReasoningSkip
    \/ ReasoningNoKey
    \/ ReasoningBegin
    \/ \E answer \in ReasoningAnswers : ReasonOk(answer)
    \/ ReasonFail
    \/ Summarise

SpecBatch == InitBatch /\ [][NextBatch]_vars

----------------------------------------------------------------------------
(* One reference of one document, resolved or flattened                    *)

InitResolve ==
    /\ r_doc \in Documents
    /\ r_ref \in Refs
    /\ r_wrapper = ""
    /\ r_pc = "call"
    /\ r_out = EmptyMap
    /\ RulesIdle
    /\ SessionIdle
    /\ BatchIdle
    /\ IngestIdle
    /\ FlattenIdle
    /\ WalkIdle
    /\ FetchIdle
    /\ PoliciesIdle
    /\ ApiIdle

\* _resolve_ref(r_doc, r_ref)
ResolveRef ==
    /\ r_pc = "call"
    /\ r_out' = resolve_ref(r_doc, r_ref)
    /\ r_pc' = "resolved"
    /\ UNCHANGED <<r_doc, r_ref, r_wrapper>>
    /\ UNCHANGED <<rulesVars, sessionVars, batchVars, ingestVars, flattenVars, walkVars, fetchVars, policyVars, apiVars>>

\* _flatten_schema(r_doc, schema) for a schema that holds {"$ref": r_ref}
FlattenSchema(wrapper) ==
    /\ r_pc = "call"
    /\ r_wrapper' = wrapper
    /\ r_out' = flatten_schema(r_doc, Wrapped(wrapper, Map("$ref" :> Str(r_ref))), MaxDepth)
    /\ r_pc' = "flattened"
    /\ UNCHANGED <<r_doc, r_ref>>
    /\ UNCHANGED <<rulesVars, sessionVars, batchVars, ingestVars, flattenVars, walkVars, fetchVars, policyVars, apiVars>>

NextResolve ==
    \/ ResolveRef
    \/ \E wrapper \in Wrappers : FlattenSchema(wrapper)

SpecResolve == InitResolve /\ [][NextResolve]_vars

----------------------------------------------------------------------------
(* Ingestion of one document and the session made of it                    *)

InitIngest ==
    /\ g_doc \in ListsUpTo(Operations, MaxOps)
    /\ g_pc = "start"
    /\ IngestBlank
    /\ RulesIdle
    /\ SessionIdle
    /\ BatchIdle
    /\ ResolveIdle
    /\ FlattenIdle
    /\ WalkIdle
    /\ FetchIdle
    /\ PoliciesIdle
    /\ ApiIdle

\* what the normalizer of a source type makes of the document
Normalized(source, doc) ==
    IF source = "openapi" THEN parse_openapi(doc)
    ELSE IF source = "postman" THEN parse_postman(doc)
    ELSE raw_tools_to_canonical(doc)

\* ingest(source) called on its own: the dispatcher picks the normalizer
Ingest(source) ==
    /\ g_pc = "start"
    /\ g_source' = source
    /\ LET spec == Normalized(source, g_doc)
       IN  IF IsRaise(spec)
           THEN /\ g_pc' = "error"
                /\ g_error' = spec.v
                /\ UNCHANGED g_spec
           ELSE /\ g_pc' = "parsed"
                /\ g_spec' = spec
                /\ UNCHANGED g_error
    /\ UNCHANGED <<g_doc, g_tools, g_raw_tools, g_classifications>>
    /\ UNCHANGED <<rulesVars, sessionVars, batchVars, resolveVars, flattenVars, walkVars, fetchVars, policyVars, apiVars>>

\* the raw tool dict api_ingest builds of a mined tool
RawToolOf(endpoint) ==
    [name |-> endpoint.operation_id, description |-> "",
     method |-> endpoint.method, path |-> "/"]

\* the raw tool dict the swagger and sdk readers hand to api_ingest
RawToolOfOperation(op) ==
    [name |-> op.name, description |-> "", method |-> op.method, path |-> "/"]

\* POST /api/ingest: normalize, take the tools, classify them under the
\* moderate policy and save the session.  mine_tools is outside this code:
\* mined is any selection of the endpoints, one tool per selected endpoint
ApiIngest(source, mined) ==
    /\ g_pc = "start"
    /\ g_source' = source
    /\ LET spec == Normalized(source, g_doc)
       IN  IF IsRaise(spec)
           THEN /\ g_pc' = "error"
                /\ g_error' = spec.v
                /\ UNCHANGED <<g_spec, g_tools, g_raw_tools, g_classifications>>
           ELSE /\ mined \in Selections(spec.endpoints)
                /\ g_pc' = "session"
                /\ g_spec' = spec
                /\ g_raw_tools' =
                       IF source = "raw"
                       THEN [k \in 1..Len(g_doc) |-> RawToolOfOperation(g_doc[k])]
                       ELSE [k \in 1..Len(mined) |-> RawToolOf(mined[k])]
                /\ g_tools' = [k \in 1..Len(g_raw_tools') |-> g_raw_tools'[k].name]
                /\ g_classifications' = classify_tools_rules(g_raw_tools', "moderate")
                /\ UNCHANGED g_error
    /\ UNCHANGED g_doc
    /\ UNCHANGED <<rulesVars, sessionVars, batchVars, resolveVars, flattenVars, walkVars, fetchVars, policyVars, apiVars>>

\* POST /api/discover/confirm: tools, raw tools and spec.endpoints are
\* filtered by name; spec.tags is not assigned
DiscoverConfirm(allowed_set) ==
    /\ g_pc \in {"session", "confirmed"}
    /\ g_tools' = SelectSeq(g_tools, LAMBDA name : name \in allowed_set)
    /\ g_raw_tools' = SelectSeq(g_raw_tools, LAMBDA rt : rt.name \in allowed_set)
    /\ g_spec' = [g_spec EXCEPT !.endpoints =
                      SelectSeq(@, LAMBDA ep : ep.operation_id \in allowed_set)]
    /\ g_pc' = "confirmed"
    /\ UNCHANGED <<g_doc, g_source, g_error, g_classifications>>
    /\ UNCHANGED <<rulesVars, sessionVars, batchVars, resolveVars, flattenVars, walkVars, fetchVars, policyVars, apiVars>>

SourceTypes == {"openapi", "postman", "raw"}

\* the tool names a client can send back
AllowedNames == {op.name : op \in Operations} \cup {""}

NextIngest ==
    \/ \E source \in {"openapi", "postman"} : Ingest(source)
    \/ \E source \in SourceTypes :
          \E mined \in Selections(
                 IF IsRaise(Normalized(source, g_doc)) \/ source = "raw" THEN <<>>
                 ELSE Normalized(source, g_doc).endpoints) :
             ApiIngest(source, mined)
    \/ \E allowed_set \in SUBSET AllowedNames : DiscoverConfirm(allowed_set)

SpecIngest == InitIngest /\ [][NextIngest]_vars

----------------------------------------------------------------------------
(* One schema fragment flattened against the document                      *)

InitFlatten ==
    /\ f_schema \in Fragments
    /\ f_fuel = 0
    /\ f_pc = "call"
    /\ f_out = EmptyMap
    /\ RulesIdle
    /\ SessionIdle
    /\ BatchIdle
    /\ ResolveIdle
    /\ IngestIdle
    /\ WalkIdle
    /\ FetchIdle
    /\ PoliciesIdle
    /\ ApiIdle

\* _flatten_schema(FlattenDocument, f_schema) under an interpreter that
\* allows fuel nested calls
Flatten(fuel) ==
    /\ f_pc = "call"
    /\ f_fuel' = fuel
    /\ f_out' = flatten_schema(FlattenDocument, f_schema, fuel)
    /\ f_pc' = "done"
    /\ UNCHANGED f_schema
    /\ UNCHANGED <<rulesVars, sessionVars, batchVars, resolveVars, ingestVars, walkVars, fetchVars, policyVars, apiVars>>

NextFlatten == \E fuel \in 1..MaxDepth : Flatten(fuel)

SpecFlatten == InitFlatten /\ [][NextFlatten]_vars

----------------------------------------------------------------------------
(* One item tree walked                                                    *)

InitWalk ==
    /\ w_items \in ItemTrees
    /\ w_pc = "call"
    /\ w_out = List(<<>>)
    /\ RulesIdle
    /\ SessionIdle
    /\ BatchIdle
    /\ ResolveIdle
    /\ IngestIdle
    /\ FlattenIdle
    /\ FetchIdle
    /\ PoliciesIdle
    /\ ApiIdle

\* endpoints = _walk_postman_items(raw.get("item", []))
WalkItems ==
    /\ w_pc = "call"
    /\ w_out' = walk_postman_items(w_items, "")
    /\ w_pc' = "done"
    /\ UNCHANGED w_items
    /\ UNCHANGED <<rulesVars, sessionVars, batchVars, resolveVars, ingestVars, flattenVars, fetchVars, policyVars, apiVars>>

NextWalk == WalkItems

SpecWalk == InitWalk /\ [][NextWalk]_vars

----------------------------------------------------------------------------
(* One call of _fetch_url                                                  *)

InitFetch ==
    /\ h_url \in FetchUrls
    /\ h_matches \in Pages
    /\ h_pc = "fetch"
    /\ h_base = ""
    /\ h_cands = <<>>
    /\ h_probed = <<>>
    /\ h_last = NoResponse
    /\ h_out = EmptyMap
    /\ RulesIdle
    /\ SessionIdle
    /\ BatchIdle
    /\ ResolveIdle
    /\ IngestIdle
    /\ FlattenIdle
    /\ WalkIdle
    /\ PoliciesIdle
    /\ ApiIdle

\* client.get(url) raises, or raise_for_status() does: the exception leaves
\* the function
FetchRaises(first) ==
    /\ h_pc = "fetch"
    /\ first \in {"status", "raises"}
    /\ h_out' = Raising(IF first = "status" THEN "HTTPStatusError" ELSE "RequestError")
    /\ h_pc' = "raised"
    /\ UNCHANGED <<h_url, h_matches, h_base, h_cands, h_probed, h_last>>
    /\ UNCHANGED <<rulesVars, sessionVars, batchVars, resolveVars, ingestVars, flattenVars, walkVars, policyVars, apiVars>>

\* the payload is a mapping as JSON or as YAML: it is returned
FetchMapping(data) ==
    /\ h_pc = "fetch"
    /\ data.t = "map"
    /\ h_out' = data
    /\ h_pc' = "direct"
    /\ UNCHANGED <<h_url, h_matches, h_base, h_cands, h_probed, h_last>>
    /\ UNCHANGED <<rulesVars, sessionVars, batchVars, resolveVars, ingestVars, flattenVars, walkVars, policyVars, apiVars>>

\* the payload is no mapping: the candidate list is built
FetchPage ==
    /\ h_pc = "fetch"
    /\ h_base' = BaseOf(h_url)
    /\ h_cands' = spec_url_candidates(h_url, h_matches)
    /\ h_pc' = "probing"
    /\ UNCHANGED <<h_url, h_matches, h_probed, h_last, h_out>>
    /\ UNCHANGED <<rulesVars, sessionVars, batchVars, resolveVars, ingestVars, flattenVars, walkVars, policyVars, apiVars>>

\* one round of `for candidate in spec_url_candidates`; after the last
\* round without a document the ValueError is raised
Probe(response) ==
    /\ h_pc = "probing"
    /\ h_probed' = Append(h_probed, SpecUrlOf(h_base, h_cands[Len(h_probed) + 1]))
    /\ h_last' = response
    /\ IF ~IsRaise(Probed(response))
       THEN h_out' = Probed(response) /\ h_pc' = "found"
       ELSE IF Len(h_probed) + 1 = Len(h_cands)
       THEN h_out' = NotFound(h_url) /\ h_pc' = "notfound"
       ELSE UNCHANGED <<h_out, h_pc>>
    /\ UNCHANGED <<h_url, h_matches, h_base, h_cands>>
    /\ UNCHANGED <<rulesVars, sessionVars, batchVars, resolveVars, ingestVars, flattenVars, walkVars, policyVars, apiVars>>

NextFetch ==
    \/ \E first \in FirstResponses : FetchRaises(first)
    \/ \E data \in Bodies : FetchMapping(data)
    \/ FetchPage
    \/ \E response \in ProbeResponses : Probe(response)

SpecFetch == InitFetch /\ [][NextFetch]_vars

\* the loop over the candidates is sequential code: a started call keeps
\* running until it returns or raises
SpecFetchFair == SpecFetch /\ WF_vars(\E response \in ProbeResponses : Probe(response))

----------------------------------------------------------------------------
(* One tool list classified in rule mode under each policy                 *)

Policies == PolicyType \cup OtherPolicies

\* the tools that follow the drawn tool in the list
CompanionTools ==
    <<[name |-> "ping", description |-> "", method |-> "POST", path |-> ""],
      [name |-> "listUsers", description |-> "List all users", method |-> "GET",
       path |-> "/users"],
      [description |-> "Place a new order", method |-> "POST", path |-> "/orders"]>>

InitPolicies ==
    /\ q_tool \in Tools
    /\ q_pc = "call"
    /\ q_out = <<>>
    /\ RulesIdle
    /\ SessionIdle
    /\ BatchIdle
    /\ ResolveIdle
    /\ IngestIdle
    /\ FlattenIdle
    /\ WalkIdle
    /\ FetchIdle
    /\ ApiIdle

\* classify_tools(tools, policy) without the external strategies, on the
\* same list under each policy: the tool drawn, then its companions
ClassifyUnderPolicies ==
    /\ q_pc = "call"
    /\ q_out' = [p \in Policies |-> classify_tools_rules(<<q_tool>> \o CompanionTools, p)]
    /\ q_pc' = "done"
    /\ UNCHANGED q_tool
    /\ UNCHANGED <<rulesVars, sessionVars, batchVars, resolveVars, ingestVars, flattenVars, walkVars, fetchVars, apiVars>>

NextPolicies == ClassifyUnderPolicies

SpecPolicies == InitPolicies /\ [][NextPolicies]_vars

----------------------------------------------------------------------------
(* Sequences of API calls                                                  *)

InitApi ==
    /\ a_sessions = <<>>
    /\ a_last = NoCall
    /\ a_generations = {}
    /\ a_deploys = {}
    /\ RulesIdle
    /\ SessionIdle
    /\ BatchIdle
    /\ ResolveIdle
    /\ IngestIdle
    /\ FlattenIdle
    /\ WalkIdle
    /\ FetchIdle
    /\ PoliciesIdle

OthersUnchanged ==
    UNCHANGED <<rulesVars, sessionVars, batchVars, resolveVars, ingestVars, flattenVars, walkVars, fetchVars, policyVars>>

\* every handler but the ingest ones starts with: no session, 404
NotFoundCall(op, session_id) ==
    /\ session_id \notin DOMAIN a_sessions
    /\ a_last' = Call(op, session_id, 404)
    /\ UNCHANGED <<a_sessions, a_generations, a_deploys>>

\* POST /api/ingest: a failed ingestion answers 400; otherwise a session is
\* saved under a fresh id
api_ingest(ok) ==
    /\ Len(SessionIds) > Cardinality(DOMAIN a_sessions)
    /\ IF ok
       THEN /\ a_sessions' = save_session(a_sessions,
                                 SessionIds[Cardinality(DOMAIN a_sessions) + 1],
                                 NewSession("Pet Store", ToolNames))
            /\ a_last' = Call("ingest", SessionIds[Cardinality(DOMAIN a_sessions) + 1], 200)
       ELSE /\ a_last' = Call("ingest", "", 400)
            /\ UNCHANGED a_sessions
    /\ UNCHANGED <<a_generations, a_deploys>>
    /\ OthersUnchanged

\* GET /api/session/{session_id}
api_session(session_id) ==
    /\ \/ NotFoundCall("session", session_id)
       \/ /\ session_id \in DOMAIN a_sessions
          /\ a_last' = Call("session", session_id, 200)
          /\ UNCHANGED <<a_sessions, a_generations, a_deploys>>
    /\ OthersUnchanged

\* POST /api/discover: 400 without raw tools, 500 when the classification
\* raises, otherwise the classifications are replaced
api_discover(session_id, p, ok) ==
    /\ \/ NotFoundCall("discover", session_id)
       \/ /\ session_id \in DOMAIN a_sessions
          /\ IF a_sessions[session_id].tools = {}
             THEN a_last' = Call("discover", session_id, 400) /\ UNCHANGED a_sessions
             ELSE IF ~ok
             THEN a_last' = Call("discover", session_id, 500) /\ UNCHANGED a_sessions
             ELSE /\ a_sessions' = save_session(a_sessions, session_id,
                                       [a_sessions[session_id] EXCEPT !.classifications = p])
                  /\ a_last' = Call("discover", session_id, 200)
          /\ UNCHANGED <<a_generations, a_deploys>>
    /\ OthersUnchanged

\* POST /api/discover/confirm: the tools are narrowed to the allowed names
api_discover_confirm(session_id, allowed) ==
    /\ \/ NotFoundCall("confirm", session_id)
       \/ /\ session_id \in DOMAIN a_sessions
          /\ a_sessions' = save_session(a_sessions, session_id,
                               [a_sessions[session_id] EXCEPT !.tools = @ \cap allowed])
          /\ a_last' = Call("confirm", session_id, 200)
          /\ UNCHANGED <<a_generations, a_deploys>>
    /\ OthersUnchanged

\* POST /api/policy: safety levels of the tools; an unknown level raises
\* before the session is saved
api_policy(session_id, ok) ==
    /\ \/ NotFoundCall("policy", session_id)
       \/ /\ session_id \in DOMAIN a_sessions
          /\ a_last' = Call("policy", session_id, IF ok THEN 200 ELSE 500)
          /\ UNCHANGED <<a_sessions, a_generations, a_deploys>>
    /\ OthersUnchanged

\* POST /api/generate
api_generate(session_id, server_name, generator) ==
    /\ \/ NotFoundCall("generate", session_id)
       \/ /\ session_id \in DOMAIN a_sessions
          /\ a_sessions' = save_session(a_sessions, session_id,
                               SessionAfterGenerate(a_sessions[session_id],
                                                    ServerName(server_name), generator))
          /\ a_last' = Call("generate", session_id, IF IsRaise(generator) THEN 500 ELSE 200)
          /\ a_generations' = IF IsRaise(generator) THEN a_generations
                              ELSE a_generations \cup {session_id}
          /\ UNCHANGED a_deploys
    /\ OthersUnchanged

\* POST /api/test: 400 without an output directory or without the test
\* file in it
api_test(session_id, test_file_exists) ==
    /\ \/ NotFoundCall("test", session_id)
       \/ /\ session_id \in DOMAIN a_sessions
          /\ a_last' = Call("test", session_id,
                            IF Falsy(a_sessions[session_id].output_dir) THEN 400
                            ELSE IF ~test_file_exists THEN 400
                            ELSE 200)
          /\ UNCHANGED <<a_sessions, a_generations, a_deploys>>
    /\ OthersUnchanged

\* POST /api/deploy: 400 without generated code; otherwise deploy_to_github
\* is called and its exception answers 500
api_deploy(session_id, ok) ==
    /\ \/ NotFoundCall("deploy", session_id)
       \/ /\ session_id \in DOMAIN a_sessions
          /\ IF NothingToDeploy(a_sessions[session_id])
             THEN /\ a_last' = Call("deploy", session_id, 400)
                  /\ UNCHANGED a_deploys
             ELSE /\ a_last' = Call("deploy", session_id, IF ok THEN 200 ELSE 500)
                  /\ a_deploys' = a_deploys \cup {session_id}
          /\ UNCHANGED <<a_sessions, a_generations>>
    /\ OthersUnchanged

NextApi ==
    \/ \E ok \in BOOLEAN : api_ingest(ok)
    \/ \E session_id \in RequestIds : api_session(session_id)
    \/ \E session_id \in RequestIds, p \in {"moderate", "permissive"}, ok \in BOOLEAN :
          api_discover(session_id, p, ok)
    \/ \E session_id \in RequestIds, allowed \in AllowedTools :
          api_discover_confirm(session_id, allowed)
    \/ \E session_id \in RequestIds, ok \in BOOLEAN : api_policy(session_id, ok)
    \/ \E session_id \in RequestIds, server_name \in ServerNames,
          generator \in GeneratorOutcomes :
          api_generate(session_id, server_name, generator)
    \/ \E session_id \in RequestIds, exists \in BOOLEAN : api_test(session_id, exists)
    \/ \E session_id \in RequestIds, ok \in BOOLEAN : api_deploy(session_id, ok)

SpecApi == InitApi /\ [][NextApi]_vars

----------------------------------------------------------------------------
(* Properties of apply_rules                                               *)

\* the keyword lists as the specification states them
DestructiveWords ==
    {"delete", "destroy", "remove", "terminate", "purge", "drop", "revoke",
     "cancel", "disable", "deactivate", "kill"}

BillingWords ==
    {"billing", "payment", "invoice", "charge", "subscription", "credit",
     "cost", "price", "purchase", "order"}

AuthWords ==
    {"token", "secret", "password", "credential", "key", "auth", "login",
     "logout", "session"}

ReadWords ==
    {"list", "get", "read", "fetch", "describe", "show", "view", "search",
     "find", "query", "lookup", "check", "validate"}

HasAny(words, text) == \E w \in words : Contains(w, text)

NameOf(t)   == IF "name" \in DOMAIN t THEN t.name ELSE ""
DescOf(t)   == IF "description" \in DOMAIN t THEN t.description ELSE ""
PathOf(t)   == IF "path" \in DOMAIN t THEN t.path ELSE ""
\* the declared method in lower case; "" when the capability declares none
MethodOf(t) == IF "method" \in DOMAIN t THEN lower(t.method) ELSE ""

TextOf(t) == lower(NameOf(t) \o " " \o DescOf(t) \o " " \o PathOf(t))

IsDestructive(t) == HasAny(DestructiveWords, TextOf(t))
IsBilling(t)     == HasAny(BillingWords, TextOf(t))
IsAuth(t)        == HasAny(AuthWords, lower(NameOf(t))) \/ HasAny(AuthWords, lower(PathOf(t)))
NoKeywordRule(t) == ~IsDestructive(t) /\ ~IsBilling(t) /\ ~IsAuth(t)
IsWrite(t)       == MethodOf(t) \in {"post", "put", "patch"}
IsRead(t)        == MethodOf(t) \in {"get", "head", "options"}
IsDelete(t)      == MethodOf(t) = "delete"

Done == pc = "done"

Decided(c, e, conf) ==
    /\ result.classification = c
    /\ result.expose = e
    /\ result.confidence = conf

\* C1: a capability whose lower-cased name + description + path contains a
\* destructive keyword is unsafe, not exposed, confidence 0.90, for every
\* method and policy and whatever other rule would also match.
C1_DestructiveFirst ==
    (Done /\ IsDestructive(tool)) => Decided("unsafe", "false", 90)

\* a GET capability with a read keyword, a billing keyword and a destructive one
C1_Witness ==
    /\ Done
    /\ IsDestructive(tool) /\ IsBilling(tool)
    /\ MethodOf(tool) = "get"
    /\ HasAny(ReadWords, TextOf(tool))
    /\ Decided("unsafe", "false", 90)

\* C2: with no destructive keyword but a billing keyword in the text the
\* result is unsafe, not exposed, confidence 0.85 for every method and
\* policy; POST createOrder "Place a new order" under moderate in particular.
C2_BillingSecond ==
    (Done /\ ~IsDestructive(tool) /\ IsBilling(tool))
        => Decided("unsafe", "false", 85)

C2_Witness ==
    /\ Done
    /\ policy = "moderate"
    /\ MethodOf(tool) = "post"
    /\ NameOf(tool) = "createOrder"
    /\ DescOf(tool) = "Place a new order"
    /\ Decided("unsafe", "false", 85)

\* C3: with no destructive and no billing keyword, an auth keyword in the
\* name or the path gives unsafe, not exposed, confidence 0.80; an auth
\* keyword in the description alone does not: the method decides then.
C3_AuthNameOrPath ==
    (Done /\ ~IsDestructive(tool) /\ ~IsBilling(tool))
        => /\ IsAuth(tool) => Decided("unsafe", "false", 80)
           /\ (~IsAuth(tool) /\ HasAny(AuthWords, lower(DescOf(tool)))) =>
                  /\ IsRead(tool) => result.classification = "safe"
                  /\ IsDelete(tool) => Decided("unsafe", "false", 95)
                  /\ IsWrite(tool) => result.classification = "conditional"
                  /\ (~IsRead(tool) /\ ~IsDelete(tool) /\ ~IsWrite(tool))
                         => result.classification = "unknown"

\* the auth keyword is in the path only
C3_Witness ==
    /\ Done
    /\ ~IsDestructive(tool) /\ ~IsBilling(tool)
    /\ ~HasAny(AuthWords, lower(NameOf(tool)))
    /\ HasAny(AuthWords, lower(PathOf(tool)))
    /\ Decided("unsafe", "false", 80)

\* the auth keyword is in the description only and the method decides
C3_WitnessDescriptionOnly ==
    /\ Done
    /\ NoKeywordRule(tool)
    /\ HasAny(AuthWords, lower(DescOf(tool)))
    /\ IsRead(tool)
    /\ result.classification = "safe"

\* C4 as stated: every DELETE capability, deleteUser included, is unsafe,
\* not exposed, confidence 0.95 under every policy.
C4_DeleteAlways95 ==
    (Done /\ IsDelete(tool)) => Decided("unsafe", "false", 95)

\* C4 amended: every DELETE capability is unsafe and not exposed under every
\* policy; the confidence is 0.95 when no keyword rule matches, and for
\* deleteUser it is 0.90, decided by the destructive keyword "delete".
C4_DeleteUnsafe ==
    (Done /\ IsDelete(tool))
        => /\ result.classification = "unsafe"
           /\ result.expose = "false"
           /\ NoKeywordRule(tool) => result.confidence = 95
           /\ NameOf(tool) = "deleteUser" => result.confidence = 90

C4_Witness ==
    /\ Done
    /\ IsDelete(tool)
    /\ NameOf(tool) = "deleteUser"
    /\ DescOf(tool) = "" /\ PathOf(tool) = ""
    /\ policy = "permissive"
    /\ Decided("unsafe", "false", 90)

\* a DELETE capability no keyword rule matches
C4_WitnessNoKeyword ==
    /\ Done
    /\ IsDelete(tool)
    /\ NoKeywordRule(tool)
    /\ policy = "permissive"
    /\ Decided("unsafe", "false", 95)

\* C5: a POST/PUT/PATCH capability no keyword rule matches is conditional,
\* not exposed, 0.70 under conservative and conditional, exposed, 0.60 under
\* permissive, whatever read or create/update keyword the text holds.
C5_WriteConservativePermissive ==
    (Done /\ IsWrite(tool) /\ NoKeywordRule(tool))
        => /\ policy = "conservative" => Decided("conditional", "false", 70)
           /\ policy = "permissive" => Decided("conditional", "true", 60)

C5_Witness ==
    /\ Done
    /\ policy = "conservative"
    /\ MethodOf(tool) = "post"
    /\ NameOf(tool) = "createWidget"
    /\ DescOf(tool) = "Create a widget"
    /\ Decided("conditional", "false", 70)

\* C6: under moderate a POST/PUT/PATCH capability no keyword rule matches is
\* conditional: exposed at 0.60 if the text contains a read keyword as a
\* substring, else exposed at 0.65 if it contains "create" or "update", else
\* "review" at 0.50.
C6_WriteModerate ==
    (Done /\ IsWrite(tool) /\ NoKeywordRule(tool) /\ policy = "moderate")
        => IF HasAny(ReadWords, TextOf(tool))
           THEN Decided("conditional", "true", 60)
           ELSE IF Contains("create", TextOf(tool)) \/ Contains("update", TextOf(tool))
           THEN Decided("conditional", "true", 65)
           ELSE Decided("conditional", "review", 50)

\* "get" inside "widget" takes the 0.60 branch although "create" is present
C6_Witness ==
    /\ Done
    /\ policy = "moderate"
    /\ MethodOf(tool) = "post"
    /\ NameOf(tool) = "createWidget"
    /\ DescOf(tool) = "" /\ PathOf(tool) = ""
    /\ Decided("conditional", "true", 60)

C6_WitnessCreate ==
    /\ Done /\ policy = "moderate" /\ IsWrite(tool)
    /\ Decided("conditional", "true", 65)

C6_WitnessReview ==
    /\ Done /\ policy = "moderate" /\ IsWrite(tool)
    /\ Decided("conditional", "review", 50)

\* C7: a GET/HEAD/OPTIONS capability (method compared case-insensitively) no
\* keyword rule matches is safe and exposed under every policy, with
\* confidence 0.95 if the text contains a read keyword and 0.80 otherwise.
C7_ReadMethodsSafe ==
    (Done /\ IsRead(tool) /\ NoKeywordRule(tool))
        => IF HasAny(ReadWords, TextOf(tool))
           THEN Decided("safe", "true", 95)
           ELSE Decided("safe", "true", 80)

\* a method written in lower case
C7_Witness ==
    /\ Done
    /\ "method" \in DOMAIN tool /\ tool.method = "get"
    /\ NameOf(tool) = "listUsers"
    /\ DescOf(tool) = "List all users"
    /\ policy = "moderate"
    /\ Decided("safe", "true", 95)

C7_WitnessNoKeyword ==
    /\ Done /\ IsRead(tool) /\ Decided("safe", "true", 80)

\* C8: a capability whose method is none of the seven (missing, FUNCTION) and
\* that no keyword rule matches is unknown, "review", 0.30 under every policy.
C8_UnknownMethod ==
    (Done /\ ~IsRead(tool) /\ ~IsWrite(tool) /\ ~IsDelete(tool)
          /\ NoKeywordRule(tool))
        => Decided("unknown", "review", 30)

\* the capability declares no method
C8_Witness ==
    /\ Done
    /\ "method" \notin DOMAIN tool
    /\ NoKeywordRule(tool)
    /\ Decided("unknown", "review", 30)

C8_WitnessFunction ==
    /\ Done
    /\ MethodOf(tool) = "function"
    /\ Decided("unknown", "review", 30)

\* C9: for a capability that matches a keyword rule or whose method is not
\* POST, PUT or PATCH, the record returned is the same under conservative,
\* moderate and permissive.
C9_PolicyOnlyForWrites ==
    (Done /\ policy \in PolicyType /\ (~NoKeywordRule(tool) \/ ~IsWrite(tool)))
        => \A q \in PolicyType : apply_rules(tool, q) = result

\* a write-method capability stopped by the billing rule, under permissive
C9_Witness ==
    /\ Done
    /\ policy = "permissive"
    /\ IsWrite(tool)
    /\ ~IsDestructive(tool) /\ IsBilling(tool)
    /\ result = apply_rules(tool, "conservative")
    /\ result.confidence = 85

\* C10: a policy outside the three literals is a caller error: classifying a
\* write-method capability with it yields no classification record.
C10_UnknownPolicyRejected ==
    (Done /\ policy \notin PolicyType /\ IsWrite(tool) /\ NoKeywordRule(tool))
        => result = NoRecord

----------------------------------------------------------------------------
(* Properties of the classification runs                                   *)

----------------------------------------------------------------------------
(* Properties of one classification run                                    *)

Returned == b_return.classifications

\* number of returned records whose exposure field is exactly v
ExposureCount(v) ==
    Cardinality({k \in 1..Len(Returned) :
                    "expose" \in DOMAIN Returned[k] /\ Returned[k].expose = v})

\* C12: whenever a run of classify_tools or classify (any mode) returns, the
\* summary counts are the numbers of returned records whose exposure is true,
\* false and "review"; classify_tools on an empty list returns all-zero
\* counts and no records.
C12_CountsFromExposure ==
    b_pc = "done" =>
        /\ b_return.summary.exposable = ExposureCount("true")
        /\ b_return.summary.blocked = ExposureCount("false")
        /\ b_return.summary.needs_review = ExposureCount("review")
        /\ (b_tools = <<>> /\ b_entry = "classify_tools" =>
               /\ Returned = <<>>
               /\ b_return.summary =
                      [total |-> 0, exposable |-> 0, blocked |-> 0, needs_review |-> 0])

\* C13: whenever a run returns, it returns one record per input capability, in
\* input order, and record k carries the name of capability k; this for the
\* rule engine and for the batched external strategy whatever batches failed.
C13_OrderAndNames ==
    b_pc = "done" =>
        /\ Len(Returned) = Len(b_tools)
        /\ \A k \in 1..Len(Returned) :
              /\ "name" \in DOMAIN Returned[k]
              /\ Returned[k].name = Get(b_tools[k], "name")

\* the capabilities of the batch that starts at input position first
ToolsOfBatch(first) ==
    [k \in 1..(IF first + BatchSize - 1 < Len(b_tools)
               THEN BatchSize ELSE Len(b_tools) - first + 1) |->
        b_tools[first + k - 1]]

\* the records the j-th batch contributed to the results
RecordsOfBatch(j) ==
    SubSeq(b_results, b_batches[j].at,
           IF j < Len(b_batches) THEN b_batches[j + 1].at - 1 ELSE Len(b_results))

C15_ExternalErrorsCaught ==
    b_gemini /\ b_tools # <<>> => b_pc # "error"

\* C16: the exposure field of every returned record is true, false or
\* "review", whichever of the rule engine, the external batch strategy and
\* the reasoning pass produced or rewrote it.
C16_ExposureLegal ==
    b_pc = "done" =>
        \A k \in 1..Len(Returned) :
            /\ "expose" \in DOMAIN Returned[k]
            /\ Returned[k].expose \in {"true", "false", "review"}

----------------------------------------------------------------------------
(* Properties of reference resolution                                      *)

\* the path of segments exists in the document: every segment is a key of the
\* mapping reached so far
RECURSIVE PathExists(_, _)
PathExists(node, parts) ==
    \/ parts = <<>>
    \/ /\ node.t = "map"
       /\ Head(parts) \in DOMAIN node.v
       /\ PathExists(node.v[Head(parts)], Tail(parts))

RefExists == PathExists(r_doc, Split(LStrip(r_ref, {"#", "/"}), "/"))

\* C20: resolving a reference whose path does not exist in the document (the
\* first missing segment at the top, in the middle, or below a scalar or a
\* list) returns the empty mapping and does not raise, and flattening a schema
\* that holds such a reference returns the schema with the empty mapping in the
\* reference's place.
C20_MissingRefIsEmpty ==
    ~RefExists =>
        /\ (r_pc = "resolved" => r_out = EmptyMap)
        /\ (r_pc = "flattened" => r_out = Wrapped(r_wrapper, EmptyMap))

----------------------------------------------------------------------------
(* Properties of the normalizers                                           *)

\* the non-empty tags of the endpoints the Spec holds now
CurrentTags ==
    {tag \in {"debug", "pets", "store"} :
        \E k \in 1..Len(g_spec.endpoints) :
            \E j \in 1..Len(g_spec.endpoints[k].tags) :
                g_spec.endpoints[k].tags[j] = tag}

\* C17: whenever a normalizer has returned a Spec, and after any number of
\* discover-confirm filterings, Spec.tags is the sorted list without
\* duplicates of the non-empty tags of the Spec's current endpoints.
C17_TagsOfCurrentEndpoints ==
    g_pc \in {"parsed", "session", "confirmed"} =>
        g_spec.tags = SelectSeq(<<"debug", "pets", "store">>,
                                LAMBDA tag : tag \in CurrentTags)

\* the method an operation declares is one of the seven HTTP methods
Recognized(op) ==
    lower(op.method) \in {"get", "post", "put", "patch", "delete", "head", "options"}

\* positions of the operations with a recognized method, in document order
RecognizedPositions == SelectSeq([k \in 1..Len(g_doc) |-> k],
                                 LAMBDA k : Recognized(g_doc[k]))

\* C18: an operation with an unrecognized HTTP method is rejected for itself
\* only: ingestion never fails because of the method, and the Spec a
\* normalizer returns holds exactly the operations with a recognized method,
\* each with the method it declares.
C18_UnknownMethodSkipped ==
    /\ g_error # "ValueError: HttpMethod"
    /\ g_pc \in {"parsed", "session"} =>
          /\ Len(g_spec.endpoints) = Len(RecognizedPositions)
          /\ \A k \in 1..Len(g_spec.endpoints) :
                /\ g_spec.endpoints[k].op = RecognizedPositions[k]
                /\ lower(g_spec.endpoints[k].method) =
                       lower(g_doc[RecognizedPositions[k]].method)

\* C19: in every Endpoint the OpenAPI/Swagger normalizer produces, the
\* parameters with location BODY are exactly those of the flattened
\* request-body schema's properties: no declared parameter is among them.
C19_BodyOnlyFromRequestBody ==
    g_source = "openapi" /\ g_pc \in {"parsed", "session"} =>
        \A k \in 1..Len(g_spec.endpoints) :
            SelectSeq(g_spec.endpoints[k].parameters,
                      LAMBDA param : param.location = "body")
              = parse_openapi_request_body(RefDocument,
                    g_doc[g_spec.endpoints[k].op].body).v

----------------------------------------------------------------------------
(* Properties of _flatten_schema on allOf, references and cycles           *)

\* a call that returned under the full recursion budget
Flattened == f_pc = "done" /\ f_fuel = MaxDepth /\ ~IsRaise(f_out)

IsAllOfFragment(schema) == schema.t = "map" /\ "allOf" \in DOMAIN schema.v

\* the schema a sub-schema stands for: references followed to their end
RECURSIVE Target(_, _)
Target(schema, n) ==
    IF n > 0 /\ schema.t = "map" /\ "$ref" \in DOMAIN schema.v
    THEN Target(resolve_ref(FlattenDocument, schema.v["$ref"].v), n - 1)
    ELSE schema

Declared(sub) == Target(sub, Cardinality(DOMAIN FlattenSchemas))

\* the property names a sub-schema declares, directly or by reference
DeclaredProperties(sub) ==
    IF Declared(sub).t = "map" /\ "properties" \in DOMAIN Declared(sub).v
    THEN DOMAIN Declared(sub).v["properties"].v
    ELSE {}

\* the top-level fields of a sub-schema other than its properties
DeclaredFields(sub) ==
    IF Declared(sub).t = "map"
    THEN DOMAIN Declared(sub).v \ {"properties", "allOf", "items", "$ref"}
    ELSE {}

SubsOf(schema) == schema.v["allOf"].v

HasProperty(out, name) ==
    /\ "properties" \in DOMAIN out.v
    /\ name \in DOMAIN out.v["properties"].v

\* C21: the flattened allOf schema has every property name declared by
\* any of its sub-schemas
C21_AllOfMergesProperties ==
    (Flattened /\ IsAllOfFragment(f_schema))
    => \A k \in 1..Len(SubsOf(f_schema)) :
           \A name \in DeclaredProperties(SubsOf(f_schema)[k]) :
               HasProperty(f_out, name)

\* the last sub-schema in list order that declares the property / the field
LastWithProperty(subs, name) ==
    CHOOSE k \in 1..Len(subs) :
        /\ name \in DeclaredProperties(subs[k])
        /\ \A j \in (k + 1)..Len(subs) : name \notin DeclaredProperties(subs[j])

LastWithField(subs, name) ==
    CHOOSE k \in 1..Len(subs) :
        /\ name \in DeclaredFields(subs[k])
        /\ \A j \in (k + 1)..Len(subs) : name \notin DeclaredFields(subs[j])

Several(subs, name, declared(_)) ==
    Cardinality({k \in 1..Len(subs) : name \in declared(subs[k])}) > 1

\* C22: a property or a top-level field declared by several sub-schemas of
\* an allOf has the value of the last sub-schema that declares it
C22_LastDeclarationWins ==
    (Flattened /\ IsAllOfFragment(f_schema))
    => /\ \A name \in UNION {DeclaredProperties(SubsOf(f_schema)[k]) :
                                k \in 1..Len(SubsOf(f_schema))} :
              Several(SubsOf(f_schema), name, DeclaredProperties)
              => /\ HasProperty(f_out, name)
                 /\ f_out.v["properties"].v[name]
                    = Declared(SubsOf(f_schema)[LastWithProperty(SubsOf(f_schema), name)])
                          .v["properties"].v[name]
       /\ \A name \in UNION {DeclaredFields(SubsOf(f_schema)[k]) :
                                k \in 1..Len(SubsOf(f_schema))} :
              Several(SubsOf(f_schema), name, DeclaredFields)
              => /\ name \in DOMAIN f_out.v
                 /\ f_out.v[name]
                    = Declared(SubsOf(f_schema)[LastWithField(SubsOf(f_schema), name)])
                          .v[name]

\* a mapping with a $ref key at some depth of the value
RECURSIVE HasRef(_)
HasRef(x) ==
    IF x.t = "map"
    THEN \/ "$ref" \in DOMAIN x.v
         \/ \E k \in DOMAIN x.v : HasRef(x.v[k])
    ELSE IF x.t = "list"
    THEN \E k \in 1..Len(x.v) : HasRef(x.v[k])
    ELSE FALSE

\* the references _flatten_schema follows below a schema: those at its
\* properties, its items and its allOf entries
RECURSIVE NestedRefs(_)
StepRefs(x) ==
    IF x.t = "map" /\ "$ref" \in DOMAIN x.v THEN {x.v["$ref"].v} ELSE NestedRefs(x)

NestedRefs(x) ==
    IF x.t # "map" THEN {}
    ELSE (IF "properties" \in DOMAIN x.v /\ x.v["properties"].t = "map"
          THEN UNION {StepRefs(x.v["properties"].v[k]) : k \in DOMAIN x.v["properties"].v}
          ELSE {})
         \cup (IF "items" \in DOMAIN x.v THEN StepRefs(x.v["items"]) ELSE {})
         \cup (IF "allOf" \in DOMAIN x.v /\ x.v["allOf"].t = "list"
               THEN UNION {StepRefs(x.v["allOf"].v[k]) : k \in 1..Len(x.v["allOf"].v)}
               ELSE {})

RefEdges(ref) == NestedRefs(resolve_ref(FlattenDocument, ref))

RECURSIVE ReachableRefs(_, _)
ReachableRefs(refs, n) ==
    IF n = 0 THEN refs
    ELSE ReachableRefs(refs \cup UNION {RefEdges(r) : r \in refs}, n - 1)

\* the reference leads back to itself
OnCycle(ref) == ref \in ReachableRefs(RefEdges(ref), Cardinality(DOMAIN FlattenSchemas))

\* the schema reaches a reference that lies on a cycle
Cyclic(schema) ==
    \E r \in ReachableRefs(StepRefs(schema), Cardinality(DOMAIN FlattenSchemas)) :
        OnCycle(r)

\* C23: what _flatten_schema returns for an acyclic schema has no $ref key
\* at any depth
C23_ResultReferenceFree ==
    (Flattened /\ ~Cyclic(f_schema)) => ~HasRef(f_out)

\* C25: an acyclic schema is flattened within the recursion budget; a
\* schema that reaches itself never returns a result, whatever the budget
C25_TerminatesIffAcyclic ==
    f_pc = "done"
    => /\ (~Cyclic(f_schema) /\ f_fuel = MaxDepth) => ~IsRaise(f_out)
       /\ Cyclic(f_schema) => f_out = Raising("RecursionError")

C25_Witness ==
    /\ f_pc = "done"
    /\ f_fuel = MaxDepth
    /\ f_schema = Wrapped("self", RefTo("Node"))
    /\ f_out = Raising("RecursionError")

----------------------------------------------------------------------------
(* Properties of _walk_postman_items                                       *)

\* the request nodes of an item tree in document order, each with the name
\* of the folder it sits in ("" at the top level)
RECURSIVE RequestsIn(_, _)
RequestsIn(items, folder) ==
    IF items = <<>> THEN <<>>
    ELSE (IF "item" \in DOMAIN Head(items)
          THEN RequestsIn(Head(items).item,
                          IF "name" \in DOMAIN Head(items) THEN Head(items).name ELSE "")
          ELSE <<[node |-> Head(items), folder |-> folder]>>)
         \o RequestsIn(Tail(items), folder)

\* C24: the walk gives one Endpoint per request node, in document order,
\* tagged with the name of the immediate folder only, untagged when that
\* name is empty or the request is at the top level
C24_OneEndpointPerRequest ==
    w_pc = "done"
    => /\ ~IsRaise(w_out)
       /\ Len(w_out.v) = Len(RequestsIn(w_items, ""))
       /\ \A i \in 1..Len(w_out.v) :
              /\ w_out.v[i].path = RequestsIn(w_items, "")[i].node.request.url
              /\ w_out.v[i].tags
                 = IF RequestsIn(w_items, "")[i].folder = ""
                   THEN <<>>
                   ELSE <<RequestsIn(w_items, "")[i].folder>>

----------------------------------------------------------------------------
(* Properties of _fetch_url                                                *)

\* the response carries a document the discovery accepts
Accepted(response) ==
    /\ ~response.raises
    /\ response.status = 200
    /\ response.body.t = "map"
    /\ \E key \in {"openapi", "swagger"} : key \in DOMAIN response.body.v

\* position k of the candidate list holds the k-th url reference of the
\* page among those with a keyword, and after them the fallback patterns
KeywordPositions(matches) ==
    {k \in 1..Len(matches) :
        \E kw \in {"swagger", "openapi", "api-docs", ".json", ".yaml"} :
            Contains(kw, lower(matches[k]))}

CandidatesInOrder ==
    /\ Len(h_cands) = Cardinality(KeywordPositions(h_matches)) + 9
    /\ \A k \in KeywordPositions(h_matches) :
           h_cands[Cardinality({j \in KeywordPositions(h_matches) : j <= k})]
           = h_matches[k]
    /\ h_cands[Len(h_cands)] = "/api/openapi.json"
    /\ h_cands[Cardinality(KeywordPositions(h_matches)) + 1]
       \in {"/v2/swagger.json", "/docs/v2/swagger.json"}

EndsWith(s, suffix) ==
    Len(s) >= Len(suffix) /\ SubSeq(s, Len(s) - Len(suffix) + 1, Len(s)) = suffix

\* one round probes the next candidate in list order; a refused response
\* moves on to the following candidate, an accepted one ends the search
\* with its document, the last refused one ends it with the error
ProbeStep ==
    (h_pc = "probing" /\ h_probed' # h_probed)
    => /\ Len(h_probed') = Len(h_probed) + 1
       /\ EndsWith(h_probed'[Len(h_probed')], h_cands[Len(h_probed')])
       /\ IF Accepted(h_last')
          THEN h_pc' = "found" /\ h_out' = h_last'.body
          ELSE IF Len(h_probed') < Len(h_cands)
          THEN h_pc' = "probing" /\ h_out' = h_out
          ELSE /\ h_pc' = "notfound"
               /\ IsRaise(h_out')
               /\ Contains(h_url, h_out'.v)

\* nothing is probed once the search has ended
NothingAfterEnd == h_pc \in {"found", "notfound"} => h_probed' = h_probed

\* C26: after a payload that is no mapping the candidates (keyword
\* references of the page, then the fallback patterns) are probed in list
\* order; a candidate that raises, answers another status than 200, is no
\* JSON or has no openapi/swagger key is skipped; the first accepted
\* document is returned and nothing is probed after it; when all are
\* refused the call raises an error naming the original address; the
\* search always ends
C26_DiscoveryInOrder ==
    /\ [](h_pc \in {"probing", "found", "notfound"} => CandidatesInOrder)
    /\ [][ProbeStep]_vars
    /\ [][NothingAfterEnd]_vars
    /\ [](h_pc = "notfound" => Len(h_probed) = Len(h_cands))
    /\ (h_pc = "probing") ~> (h_pc \in {"found", "notfound"})

\* a search that skipped candidates and stopped at an accepted one before
\* the end of the list
C26_Witness ==
    /\ h_pc = "found"
    /\ Len(h_probed) = 3
    /\ Len(h_cands) > 9
    /\ "swagger" \in DOMAIN h_out.v

----------------------------------------------------------------------------
(* Properties of the rule records across policies                          *)

\* the exposure the rules give the drawn tool under a policy
ExposeUnder(p) == q_out[p].classifications[1].expose

\* C27: a tool exposed under conservative is exposed under moderate, one
\* exposed under moderate is exposed under permissive, and one blocked
\* under permissive is blocked under moderate and conservative
C27_PoliciesOrdered ==
    q_pc = "done"
    => /\ ExposeUnder("conservative") = "true" => ExposeUnder("moderate") = "true"
       /\ ExposeUnder("moderate") = "true" => ExposeUnder("permissive") = "true"
       /\ ExposeUnder("permissive") = "false"
          => /\ ExposeUnder("moderate") = "false"
             /\ ExposeUnder("conservative") = "false"

\* a write that moderate exposes and conservative blocks
C27_Witness ==
    /\ q_pc = "done"
    /\ ExposeUnder("conservative") = "false"
    /\ ExposeUnder("moderate") = "true"
    /\ ExposeUnder("permissive") = "true"

RecordConsistent(rec) ==
    /\ rec.classification = "unsafe" => rec.expose = "false"
    /\ rec.classification = "safe" => rec.expose = "true"
    /\ rec.classification = "unknown" => rec.expose = "review"
    /\ rec.expose = "review" => rec.confidence \in {50, 30}
    /\ rec.expose \in {"true", "false", "review"}

\* C28: in rule mode every record has exposure false when unsafe, true when
\* safe, "review" when unknown, "review" only with confidence 0.50 or 0.30,
\* and the three counts of the summary add up to the total
C28_RecordsConsistent ==
    q_pc = "done"
    => \A p \in Policies :
           /\ \A i \in 1..Len(q_out[p].classifications) :
                  RecordConsistent(q_out[p].classifications[i])
           /\ q_out[p].summary.exposable + q_out[p].summary.blocked
                + q_out[p].summary.needs_review
              = q_out[p].summary.total
           /\ q_out[p].summary.total = Len(q_out[p].classifications)

\* a list with an unknown, a reviewed write and exposed and blocked records
C28_Witness ==
    /\ q_pc = "done"
    /\ q_out["moderate"].classifications[1].classification = "unknown"
    /\ q_out["moderate"].summary.needs_review > 1
    /\ q_out["moderate"].summary.exposable > 0
    /\ q_out["moderate"].summary.blocked > 0

----------------------------------------------------------------------------
(* Properties of enhance_with_reasoning                                    *)

\* a record the reasoning pass may touch: under review, or below 0.6
IsEdgeCase(c) ==
    \/ ("expose" \in DOMAIN c /\ c.expose = "review")
    \/ ("confidence" \in DOMAIN c /\ c.confidence < 60)

\* the record differs at most in exposure, reason, confidence and the flag
SameButAnswer(before, after) ==
    /\ DOMAIN after = DOMAIN before \cup {"enhanced"}
    /\ \A k \in DOMAIN before \ {"expose", "reason", "confidence", "enhanced"} :
           after[k] = before[k]

\* one step of a classification run between the classification and the
\* summary
ReasoningStep ==
    (b_pc \in {"classified", "reasoning"} /\ b_pc' # "error")
    => /\ Len(b_results') = Len(b_results)
       /\ b_pc = "classified" => b_results' = b_results
       /\ \A j \in 1..Len(b_results) :
              /\ ~IsEdgeCase(b_results[j]) => b_results'[j] = b_results[j]
              /\ (b_pc = "reasoning" /\ j # Head(b_edges)) => b_results'[j] = b_results[j]
              /\ b_results'[j] # b_results[j]
                 => /\ b_results'[j].enhanced = "true"
                    /\ SameButAnswer(b_results[j], b_results'[j])
              /\ b_results'[j] = b_results[j]
                 => ("enhanced" \in DOMAIN b_results'[j]) = ("enhanced" \in DOMAIN b_results[j])

\* C29: the reasoning pass leaves every record that is not under review
\* and has confidence >= 0.6 as it was, keeps an edge case whose request
\* or parsing failed (unflagged), flags the records an answer was applied
\* to, keeps the number and the order of the records, and returns the
\* list as it was when there is no API key
C29_OnlyEdgeCasesChange == [][ReasoningStep]_vars

\* a finished pass with one edge case overridden and one kept
C29_Witness ==
    /\ b_pc = "done"
    /\ b_reasoning
    /\ \E j, k \in 1..Len(b_results) :
           /\ "enhanced" \in DOMAIN b_results[j]
           /\ "enhanced" \notin DOMAIN b_results[k]
           /\ IsEdgeCase(b_results[k])
    /\ \E j \in 1..Len(b_results) :
           /\ ~IsEdgeCase(b_results[j])
           /\ "enhanced" \notin DOMAIN b_results[j]

----------------------------------------------------------------------------
(* Properties of the API call sequences                                    *)

\* the session has neither a generated result nor an output directory
Ungenerated(sess) == sess.generated = [t |-> "none"] /\ sess.output_dir = [t |-> "none"]

\* one API call, described by the call a_last' it leaves
CallStep ==
    a_last' # a_last \/ a_sessions' # a_sessions \/ a_deploys' # a_deploys
    => /\ \* a deploy or test call on a session without generated code
          (/\ a_last'.op \in {"deploy", "test"}
           /\ a_last'.session_id \in DOMAIN a_sessions
           /\ Ungenerated(a_sessions[a_last'.session_id]))
          => /\ a_last'.status = 400
             /\ a_deploys' = a_deploys
             /\ a_sessions' = a_sessions
       /\ \* a failed generate call
          (a_last'.op = "generate" /\ a_last'.status # 200)
          => /\ a_sessions' = a_sessions
             /\ a_generations' = a_generations
       /\ \* a call that names an unknown session id
          (a_last'.op # "ingest" /\ a_last'.session_id \notin DOMAIN a_sessions)
          => /\ a_last'.status = 404
             /\ a_sessions' = a_sessions
             /\ a_deploys' = a_deploys
       /\ \* deploy_to_github is called for a session generated before
          a_deploys' \ a_deploys \subseteq a_generations

\* C30: deploy_to_github is only ever called for a session on which a
\* generate call succeeded before; deploy and test calls on a session
\* without generated code are rejected; a failed generate call leaves the
\* session as it was; a call naming an unknown session id answers 404 and
\* creates or changes no session
C30_DeployAfterGenerate ==
    /\ [](a_deploys \subseteq a_generations)
    /\ [](\A id \in DOMAIN a_sessions :
              (id \in a_generations) = ~Ungenerated(a_sessions[id]))
    /\ [][CallStep]_vars

\* a deployment after a generation that followed a failed one
C30_Witness ==
    /\ a_deploys = {"s1"}
    /\ a_last = [op |-> "generate", session_id |-> "s2", status |-> 500]
    /\ "s2" \in DOMAIN a_sessions
    /\ Ungenerated(a_sessions["s2"])

====
